---- MODULE Spec2Model ----
(***************************************************************************)
(* Run controller (playbook-agent), DAG scheduler and step-worker          *)
(* lifecycle protocol of skillmatic-ai/playbooks.                          *)
(*                                                                         *)
(* The document store (Firestore) is the shared state: the run document,   *)
(* one step document per step (status, error, checkpoint), the inputs      *)
(* subcollection and the question/approval events.  The controller is one  *)
(* sequential process (ctrlPc); every launched Job is a worker process     *)
(* (wpc[s]).  Each action is one store round trip of the code, so that the *)
(* interleavings of controller and worker writes are the real ones.        *)
(***************************************************************************)
EXTENDS Naturals, Integers, Sequences, FiniteSets, Bags, TLC

(***************************************************************************)
(* Bounds of the model                                                     *)
(***************************************************************************)
\* number of times the wall clock may advance
MaxClock == 1
\* number of HITL questions / approval requests a run may emit
MaxQuestions == 2
\* longest step list handed to validate_dag on its own
MaxDagSteps == 3
\* seconds by which the wall clock advances at a time (more than the
\* timeout of a one-minute step, so that one advance can time a step out)
ClockStep == 61

(***************************************************************************)
(* Program constants                                                       *)
(***************************************************************************)
\* seconds in one minute: timeout_seconds = step.timeout_minutes * 60
SecondsPerMinute == 60

StepIds == {"a", "b", "c", "d"}

Terminal == {"completed", "failed", "skipped"}

NoCheckpoint == [phase |-> "none", questionId |-> 0]

(***************************************************************************)
(* Playbooks (the parsed PlaybookDefinition handed to run_orchestration).  *)
(* kind is the agent image of the step:                                    *)
(*   echo        - no HITL, no abort check      (echo/entrypoint.py)       *)
(*   report      - no HITL, abort check at boot (report-generator)         *)
(*   interactive - ask_user, then request_approval, then complete          *)
(*   provisioner - request_approval, then complete (account-provisioner)   *)
(***************************************************************************)
StepDef(id, order, dependencies, kind, timeout_minutes) ==
    [id |-> id, order |-> order, dependencies |-> dependencies,
     kind |-> kind, timeout_minutes |-> timeout_minutes]

\* a -> b -> c
ChainPlaybook ==
    { StepDef("a", 1, {}, "interactive", 1),
      StepDef("b", 2, {"a"}, "report", 1),
      StepDef("c", 3, {"b"}, "echo", 1) }

\* a, b, c -> d
FanOutPlaybook ==
    { StepDef("a", 1, {}, "echo", 1),
      StepDef("b", 2, {}, "echo", 1),
      StepDef("c", 3, {}, "echo", 1),
      StepDef("d", 4, {"a", "b", "c"}, "report", 1) }

\* a -> b -> c and a -> d
CascadePlaybook ==
    { StepDef("a", 1, {}, "echo", 1),
      StepDef("b", 2, {"a"}, "echo", 1),
      StepDef("c", 3, {"b"}, "echo", 1),
      StepDef("d", 4, {"a"}, "report", 1) }

\* a single approval step
SinglePlaybook ==
    { StepDef("a", 1, {}, "provisioner", 1) }

\* a and, independently of it, b -> c
BranchPlaybook ==
    { StepDef("a", 1, {}, "echo", 1),
      StepDef("b", 2, {}, "report", 1),
      StepDef("c", 3, {"b"}, "echo", 1) }

Playbooks ==
    { ChainPlaybook, FanOutPlaybook, CascadePlaybook, SinglePlaybook,
      BranchPlaybook }

\* a -> b -> c -> a
CyclePlaybook ==
    { StepDef("a", 1, {"c"}, "echo", 1),
      StepDef("b", 2, {"a"}, "report", 1),
      StepDef("c", 3, {"b"}, "echo", 1) }

\* b names a dependency that is not a step of the playbook
DanglingPlaybook ==
    { StepDef("a", 1, {}, "echo", 1),
      StepDef("b", 2, {"x"}, "echo", 1) }

\* a playbook whose front matter lists no steps: _parse_steps returns []
EmptyPlaybook == {}

\* playbooks validate_dag rejects
InvalidPlaybooks == { CyclePlaybook, DanglingPlaybook }

HitlKinds == {"interactive", "provisioner"}
AbortCheckKinds == {"report"}

(***************************************************************************)
(* DAG scheduler                                                           *)
(***************************************************************************)
Ids(stepList) == { st.id : st \in stepList }

StepOf(stepList, id) == CHOOSE st \in stepList : st.id = id

RECURSIVE SortByOrder_descending(_)
SortByOrder_descending(stepSet) ==
    IF stepSet = {} THEN << >>
    ELSE LET first == CHOOSE st \in stepSet :
                         \A other \in stepSet : st.order >= other.order
         IN  <<first>> \o SortByOrder_descending(stepSet \ {first})

\* sorted(ready, key=lambda s: s.order)
RECURSIVE SortByOrder(_)
SortByOrder(stepSet) ==
    IF stepSet = {} THEN << >>
    ELSE LET first == CHOOSE st \in stepSet :
                         \A other \in stepSet : st.order <= other.order
         IN  <<first>> \o SortByOrder(stepSet \ {first})

get_ready_steps_no_failed(stepList, completedSet, failedSet, runningSet) ==
    LET done == completedSet \cup runningSet
    IN  SortByOrder({ st \in stepList :
                        /\ st.id \notin done
                        /\ \A dep \in st.dependencies : dep \in completedSet })

get_ready_steps_any_dep(stepList, completedSet, failedSet, runningSet) ==
    LET done == completedSet \cup failedSet \cup runningSet
    IN  SortByOrder({ st \in stepList :
                        /\ st.id \notin done
                        /\ (st.dependencies = {} \/
                            \E dep \in st.dependencies : dep \in completedSet) })

get_ready_steps(stepList, completedSet, failedSet, runningSet) ==
    LET done == completedSet \cup failedSet \cup runningSet
    IN  SortByOrder({ st \in stepList :
                        /\ st.id \notin done
                        /\ \A dep \in st.dependencies : dep \in completedSet })

\* dependents[dep].append(step.id)
Dependents(stepList, id) == { st.id : st \in { x \in stepList : id \in x.dependencies } }

\* BFS over the "enables" adjacency; the queue is popped from the front
RECURSIVE Bfs(_, _, _)
Bfs(stepList, queue, visited) ==
    IF queue = << >> THEN visited
    ELSE LET current == Head(queue)
             fresh   == Dependents(stepList, current) \ visited
             freshQ  == SortByOrder({ st \in stepList : st.id \in fresh })
         IN  Bfs(stepList,
                 Tail(queue) \o [i \in 1..Len(freshQ) |-> freshQ[i].id],
                 visited \cup fresh)

get_transitive_dependents_all_later(step_id, stepList) ==
    { st.id : st \in { x \in stepList : x.order > StepOf(stepList, step_id).order } }

get_transitive_dependents(step_id, stepList) ==
    Bfs(stepList, <<step_id>>, {})

\* transitive dependencies of a step (used by the properties only)
RECURSIVE Ancestors(_, _)
Ancestors(stepList, id) ==
    LET direct == StepOf(stepList, id).dependencies
    IN  direct \cup UNION { Ancestors(stepList, dep) : dep \in direct }

\* step_ids = {s.id for s in steps}; a dependency outside it is a ValueError
MissingDependency(stepList) ==
    \E st \in stepList : \E dep \in st.dependencies : dep \notin Ids(stepList)

\* in_degree[step.id] += 1 for every dependency of every step
RECURSIVE InDegree(_, _)
InDegree(stepList, id) ==
    IF stepList = {} THEN 0
    ELSE LET st == CHOOSE x \in stepList : TRUE
         IN  (IF st.id = id THEN Cardinality(st.dependencies) ELSE 0)
             + InDegree(stepList \ {st}, id)

\* a set of ids as a list (the order in which Kahn's queue receives them
\* does not change sorted_count)
RECURSIVE IdList(_)
IdList(idSet) ==
    IF idSet = {} THEN << >>
    ELSE LET id == CHOOSE x \in idSet : TRUE
         IN  <<id>> \o IdList(idSet \ {id})

\* the while loop of Kahn's algorithm: pops the queue, counts the node and
\* decrements the in-degree of each of its dependents; returns sorted_count
RECURSIVE Kahn(_, _, _, _)
Kahn(stepList, queue, in_degree, sorted_count) ==
    IF queue = << >> THEN sorted_count
    ELSE LET node == Head(queue)
             hit  == { st \in stepList : node \in st.dependencies }
             next_degree == [id \in DOMAIN in_degree |->
                 in_degree[id] - Cardinality({ st \in hit : st.id = id })]
             released == { id \in DOMAIN in_degree :
                             in_degree[id] > 0 /\ next_degree[id] = 0 }
         IN  Kahn(stepList, Tail(queue) \o IdList(released), next_degree,
                  sorted_count + 1)

\* python's order of the step ids as strings
IdRank(id) ==
    CASE id = "a" -> 1 [] id = "b" -> 2 [] id = "c" -> 3 [] id = "d" -> 4
      [] OTHER -> 5

RECURSIVE SortedIds(_)
\* a set of ids in ascending order: sorted(failed) in _write_summary, and
\* the order in which a dependency list written in ascending order is read
SortedIds(idSet) ==
    IF idSet = {} THEN << >>
    ELSE LET first == CHOOSE i \in idSet :
                          \A j \in idSet : IdRank(i) <= IdRank(j)
         IN  <<first>> \o SortedIds(idSet \ {first})

\* adj = {s.id: list(s.dependencies) for s in steps}: of two entries with
\* the same id the later one wins
Adj(stepList, id) ==
    LET same == { st \in stepList : st.id = id }
        last == CHOOSE st \in same : \A o \in same : o.order <= st.order
    IN  SortedIds(last.dependencies)

RECURSIVE CycleWalk(_, _, _, _)
\* while parent.get(current) and parent[current] != dep:
\*     current = parent[current]; cycle.append(current)
CycleWalk(parent, dep, current, cycle) ==
    IF parent[current] # "none" /\ parent[current] # dep
    THEN CycleWalk(parent, dep, parent[current],
                   Append(cycle, parent[current]))
    ELSE cycle

RECURSIVE Reverse(_)
\* cycle.reverse()
Reverse(list) ==
    IF list = << >> THEN << >>
    ELSE Append(Reverse(Tail(list)), Head(list))

RECURSIVE dfs(_, _, _)
RECURSIVE dfs_dependencies(_, _, _, _)
\* the loop "for dep in adj[node]" of dfs, over the rest of the list; search
\* holds color, parent and the cycle found (empty while dfs returns None)
dfs_dependencies(stepList, node, deps, search) ==
    IF deps = << >> THEN search
    ELSE LET dep == Head(deps) IN
         IF search.color[dep] = "GRAY"
         THEN [search EXCEPT !.cycle =
                  Reverse(CycleWalk(search.parent, dep, node, <<dep, node>>))]
         ELSE IF search.color[dep] = "WHITE"
         THEN LET result == dfs(stepList, dep,
                                [search EXCEPT !.parent[dep] = node])
              IN  IF result.cycle # << >> THEN result
                  ELSE dfs_dependencies(stepList, node, Tail(deps), result)
         ELSE dfs_dependencies(stepList, node, Tail(deps), search)

\* dfs(node) of _find_cycle
dfs(stepList, node, search) ==
    LET result == dfs_dependencies(stepList, node, Adj(stepList, node),
                                   [search EXCEPT !.color[node] = "GRAY"])
    IN  IF result.cycle # << >> THEN result
        ELSE [result EXCEPT !.color[node] = "BLACK"]

RECURSIVE find_cycle_from(_, _, _)
\* the loop "for step in steps" of _find_cycle over the rest of the list,
\* and its fallback return ["unknown"]
find_cycle_from(stepList, rest, search) ==
    IF rest = << >> THEN <<"unknown">>
    ELSE IF search.color[Head(rest).id] = "WHITE"
    THEN LET result == dfs(stepList, Head(rest).id, search)
         IN  IF result.cycle # << >> THEN result.cycle
             ELSE find_cycle_from(stepList, Tail(rest), result)
    ELSE find_cycle_from(stepList, Tail(rest), search)

\* _find_cycle(steps)
find_cycle(stepList) ==
    find_cycle_from(stepList, SortByOrder(stepList),
                    [color  |-> [id \in Ids(stepList) |-> "WHITE"],
                     parent |-> [id \in Ids(stepList) |-> "none"],
                     cycle  |-> << >>])

validate_dag_no_reference_check(stepList) ==
    LET known == { [st EXCEPT !.dependencies = @ \cap Ids(stepList)] :
                     st \in stepList }
        in_degree == [id \in Ids(known) |-> InDegree(known, id)]
        queue == IdList({ id \in Ids(known) : in_degree[id] = 0 })
    IN  IF Kahn(known, queue, in_degree, 0) < Cardinality(known)
        THEN "CyclicDependencyError" ELSE "ok"

\* validate_dag: "ok" when it returns, otherwise the exception it raises.
\* sorted_count counts ids, len(steps) counts the entries of the list.
validate_dag(stepList) ==
    IF MissingDependency(stepList) THEN "ValueError"
    ELSE LET in_degree == [id \in Ids(stepList) |-> InDegree(stepList, id)]
             queue == IdList({ id \in Ids(stepList) : in_degree[id] = 0 })
         IN  IF Kahn(stepList, queue, in_degree, 0) < Cardinality(stepList)
             THEN "CyclicDependencyError" ELSE "ok"

(***************************************************************************)
(* Step lists handed to the DAG functions on their own: one entry per      *)
(* position of the list (order = position, as _parse_steps numbers them),  *)
(* any id, any dependencies, so that ids may repeat, dependencies may      *)
(* dangle and cycles may exist.                                            *)
(***************************************************************************)
DagIds == {"a", "b", "c"}

DanglingId == "x"

DependencyChoices ==
    { {}, {"a"}, {"b"}, {"c"}, {"a", "b"}, {DanglingId} }

\* the step list whose entry at position i has the id and dependencies f[i]
DagStepList(f) ==
    { StepDef(f[i].id, i, f[i].dependencies, "echo", 1) : i \in DOMAIN f }

\* the ways run_orchestration can hold the ids of a step list: each id in
\* at most one of completed, failed | skipped, running
DagArguments(stepList) ==
    { [completed |-> { id \in Ids(stepList) : f[id] = "completed" },
       failed    |-> { id \in Ids(stepList) : f[id] = "failed" },
       running   |-> { id \in Ids(stepList) : f[id] = "running" }] :
        f \in [Ids(stepList) -> {"none", "completed", "failed", "running"}] }

NoDagOut ==
    [op |-> "none", error |-> "none", step_id |-> "none",
     arguments |-> [completed |-> {}, failed |-> {}, running |-> {}],
     list |-> << >>, set |-> {}]


(***************************************************************************)
(* State                                                                   *)
(***************************************************************************)
VARIABLES
    steps,              \* sorted(playbook.steps, key=order)
    runStatus,          \* run document: status
    runError,           \* run document: error.code
    runMessage,         \* run document: what error.message names
    stepStatus,         \* step documents: status
    stepError,          \* step documents: error.code
    checkpoint,         \* step documents: checkpoint field
    inputs,             \* inputs subcollection
    triggered,          \* inputs the resume trigger has already handled
    questionEvents,     \* question / approval_request events of the log
    nextQuestionId,     \* supply of fresh uuid4 values
    events,             \* events subcollection: bag of (type, stepId, writer)
    lastHeartbeat,      \* run document: lastHeartbeat, -1 while never written
    ctrlPc,             \* position of the controller process
    completed, failed, running, skipped,
    paused_notified,    \* steps whose paused_notified flag is True
    step_start_times,   \* -1 where the dict has no entry
    ready,              \* rest of the ready list being launched
    toPoll,             \* rest of list(running) being polled
    exitCode,           \* exit code of the controller, -1 while alive
    wpc,                \* position of the worker process of each step
    wphase,             \* phase function the worker dispatches to
    wqid,               \* question id generated by the worker
    wexit,              \* exit code of the worker process, -1 while alive
    winput,             \* type of the input_doc a resume worker has read
    now,                \* time.time()
    dagOut,             \* last call of a DAG function on its own, its result
    cpOut,              \* checkpoint files, and the last call of a checkpoint
                        \* function on its own with its result
    launched,           \* history: steps _launch_step was called for
    abortRequested,     \* history: run.status was set to aborted
    abortPolled,        \* history: a poll pass began after the abort
    askedSinceRunning,  \* history: questions emitted since status became running
    skipCause,          \* history: why the controller skipped a step
    timedOut,           \* history: steps that took the timeout branch
    iterationReady,     \* history: ids ready at the start of the launch loop
    resumedTerminal,    \* history: resume workers started on a terminal status
    pauses,             \* history: number of times each step was paused
    inTime,             \* history: steps whose worker wrote completed within the timeout
    killed,             \* history: steps whose worker exited before a terminal write
    firstFailed         \* history: the first step the controller added to failed

storeVars == <<runStatus, runError, runMessage, stepStatus, stepError, checkpoint,
               inputs, triggered, questionEvents, nextQuestionId, events,
               lastHeartbeat>>
ctrlVars  == <<ctrlPc, completed, failed, running, skipped, paused_notified,
               step_start_times, ready, toPoll, exitCode>>
workerVars == <<wpc, wphase, wqid, wexit, winput>>
histVars  == <<launched, abortRequested, abortPolled, askedSinceRunning,
               skipCause, timedOut, iterationReady, resumedTerminal, pauses,
               inTime, killed, firstFailed>>
vars == <<steps, storeVars, ctrlVars, workerVars, now, dagOut, cpOut,
          histVars>>

StepIdSet == Ids(steps)

\* write_event(event_type, step_id): the log after one more event
Log(type, step_id, by) ==
    events (+) SetToBag({[type |-> type, stepId |-> step_id, by |-> by]})

\* the log after the controller's progress events "Step skipped (...)", one
\* for each step of idSet, are appended to log
SkippedNotices(log, idSet) ==
    log (+) SetToBag({ [type |-> "progress_skipped", stepId |-> s,
                        by |-> "controller"] : s \in idSet })

\* number of events of a type written for a step by a writer
Logged(type, step_id, by) ==
    CopiesIn([type |-> type, stepId |-> step_id, by |-> by], events)

\* askedSinceRunning after the step statuses become newStatus
AskedAfter(newStatus) ==
    [s \in StepIds |->
        IF newStatus[s] = "running" /\ stepStatus[s] # "running"
        THEN 0 ELSE askedSinceRunning[s]]

\* no checkpoint function called yet, no checkpoint file written
NoCall == [op |-> "none", step_id |-> "none", data |-> NoCheckpoint]

NoCpOut ==
    [call |-> NoCall, previous |-> NoCall, error |-> "none",
     result |-> NoCheckpoint, file_result |-> NoCheckpoint,
     files |-> [s \in StepIds |-> "missing"]]

\* the run document before any error is written
NoMessage == [error |-> "none", step_id |-> "none", failed_ids |-> << >>]

InitWith(pc) ==
    /\ runStatus = "pending"
    /\ runError = "none"
    /\ runMessage = NoMessage
    /\ stepStatus = [s \in StepIds |-> "absent"]
    /\ stepError = [s \in StepIds |-> "none"]
    /\ checkpoint = [s \in StepIds |-> NoCheckpoint]
    /\ inputs = {}
    /\ triggered = {}
    /\ questionEvents = {}
    /\ nextQuestionId = 1
    /\ events = EmptyBag
    /\ lastHeartbeat = -1
    /\ ctrlPc = pc
    /\ completed = {} /\ failed = {} /\ running = {} /\ skipped = {}
    /\ paused_notified = {}
    /\ step_start_times = [s \in StepIds |-> -1]
    /\ ready = << >>
    /\ toPoll = {}
    /\ exitCode = -1
    /\ wpc = [s \in StepIds |-> "idle"]
    /\ wphase = [s \in StepIds |-> "fresh"]
    /\ wqid = [s \in StepIds |-> 0]
    /\ wexit = [s \in StepIds |-> -1]
    /\ winput = [s \in StepIds |-> "none"]
    /\ now = 0
    /\ dagOut = NoDagOut
    /\ cpOut = NoCpOut
    /\ launched = {}
    /\ abortRequested = FALSE
    /\ abortPolled = FALSE
    /\ askedSinceRunning = [s \in StepIds |-> 0]
    /\ skipCause = [s \in StepIds |-> "none"]
    /\ timedOut = {}
    /\ iterationReady = {}
    /\ resumedTerminal = {}
    /\ pauses = [s \in StepIds |-> 0]
    /\ inTime = {}
    /\ killed = {}
    /\ firstFailed = "none"

\* a run of the controller over one of the playbooks
Init ==
    /\ steps \in Playbooks
    /\ InitWith("start")

\* a step list handed to the DAG functions on their own
InitDag ==
    /\ \E n \in 1..MaxDagSteps :
          \E f \in [1..n -> [id : DagIds, dependencies : DependencyChoices]] :
              steps = DagStepList(f)
    /\ InitWith("dag")

(***************************************************************************)
(* Controller: entrypoint.main and run_orchestration                       *)
(***************************************************************************)
\* entrypoint.main marks the run running and writes playbook_started, parses
\* and hydrates the playbook with one progress event each, then calls
\* run_orchestration.
CtrlStart ==
    /\ ctrlPc = "start"
    /\ runStatus' = "running"
    /\ events' = events (+) SetToBag({
           [type |-> "playbook_started", stepId |-> "none",
            by |-> "controller"],
           \* progress: "Parsed playbook: ..."
           [type |-> "progress_parsed", stepId |-> "none",
            by |-> "controller"],
           \* progress: "Template hydration complete: ..."
           [type |-> "progress_hydrated", stepId |-> "none",
            by |-> "controller"] })
    /\ ctrlPc' = "validate"
    /\ UNCHANGED <<steps, dagOut, runError, runMessage, stepStatus, stepError,
                   checkpoint, inputs, triggered, questionEvents,
                   nextQuestionId, completed, failed, running, skipped,
                   paused_notified, step_start_times, ready, toPoll,
                   exitCode, workerVars, now, histVars,
                   cpOut,
                   lastHeartbeat>>

\* the error code of the handler of entrypoint.main that catches the
\* exception: "except CyclicDependencyError", otherwise "except Exception"
ErrorCode(error) ==
    IF error = "CyclicDependencyError" THEN "CYCLIC_DEPENDENCY"
    ELSE "AGENT_CRASH"

\* run_orchestration before its loop: validate_dag(steps), then
\* initialize_step_docs sets every step document to pending.  An exception
\* of validate_dag leaves run_orchestration before any step document is
\* written and reaches a handler of entrypoint.main, which writes
\* playbook_failed, then the run status failed with its error code, and
\* exits 1.  With an empty step list run_orchestration returns before
\* validate_dag ("if not steps: return").
CtrlValidate ==
    /\ ctrlPc = "validate"
    /\ LET raised == validate_dag(steps) IN
       IF steps = {}
       THEN /\ ctrlPc' = "summary"
            /\ UNCHANGED <<stepStatus, runStatus, runError, runMessage,
                           events, exitCode>>
       ELSE IF raised = "ok"
       THEN /\ stepStatus' = [s \in StepIds |->
                               IF s \in StepIdSet THEN "pending"
                               ELSE stepStatus[s]]
            /\ ctrlPc' = "top"
            /\ UNCHANGED <<runStatus, runError, runMessage, events, exitCode>>
       ELSE /\ events' = Log("playbook_failed", "none", "controller")
            /\ runStatus' = "failed"
            /\ runError' = ErrorCode(raised)
            /\ runMessage' = [NoMessage EXCEPT !.error = raised]
            /\ exitCode' = 1
            /\ ctrlPc' = "exited"
            /\ UNCHANGED stepStatus
    /\ UNCHANGED <<steps, dagOut, stepError, checkpoint, inputs, triggered,
                   questionEvents, nextQuestionId, completed, failed, running,
                   skipped, paused_notified, step_start_times, ready, toPoll,
                   workerVars, now, histVars,
                   cpOut,
                   lastHeartbeat>>

\* 1. ready = get_ready_steps(steps, completed, failed | skipped, running)
CtrlComputeReady ==
    /\ ctrlPc = "top"
    /\ ready' = get_ready_steps(steps, completed, failed \cup skipped, running)
    /\ iterationReady' = { ready'[i].id : i \in 1..Len(ready') }
    /\ ctrlPc' = IF ready' = << >> THEN "term" ELSE "launch"
    /\ UNCHANGED <<steps, dagOut, storeVars, completed, failed, running, skipped,
                   paused_notified, step_start_times, toPoll, exitCode,
                   workerVars, now, launched, abortRequested, abortPolled,
                   askedSinceRunning, skipCause, timedOut, resumedTerminal,
                   pauses,
                   inTime,
                   firstFailed,
                   cpOut,
                   killed>>

\* first position of a fresh worker: report-generator and calendar-manager
\* read the run status before anything else
FreshBootPc(kind) == IF kind \in AbortCheckKinds THEN "boot" ELSE "set_running"

\* for step in ready: update_run_status("running"), then _launch_step up to
\* and including create_step_job (status running, step_started event, Job):
\* the Job, hence the worker, now exists.
CtrlLaunchCreateJob ==
    /\ ctrlPc = "launch"
    /\ LET step == Head(ready) IN
        /\ runStatus' = "running"
        /\ stepStatus' = [stepStatus EXCEPT ![step.id] = "running"]
        /\ askedSinceRunning' = AskedAfter(stepStatus')
        /\ wpc' = [wpc EXCEPT ![step.id] = FreshBootPc(step.kind)]
        /\ wphase' = [wphase EXCEPT ![step.id] = "fresh"]
        /\ wexit' = [wexit EXCEPT ![step.id] = -1]
        /\ events' = Log("step_started", step.id, "controller")
        /\ launched' = launched \cup {step.id}
    /\ ctrlPc' = "launch2"
    /\ UNCHANGED <<steps, dagOut, runError, stepError, checkpoint, inputs, triggered,
                   questionEvents, nextQuestionId, completed, failed, running,
                   skipped, paused_notified, step_start_times, ready, toPoll,
                   exitCode, wqid, now, abortRequested, abortPolled,
                   skipCause, timedOut,
                   iterationReady, resumedTerminal,
                   winput,
                   pauses,
                   inTime,
                   runMessage, firstFailed,
                   cpOut,
                   killed,
                   lastHeartbeat>>

\* update_step_status(step_id, "running", job_name=job_name), then
\* running.add(step.id); step_start_times[step.id] = time.time()
CtrlLaunchSetJobName ==
    /\ ctrlPc = "launch2"
    /\ LET step == Head(ready) IN
        /\ stepStatus' = [stepStatus EXCEPT ![step.id] = "running"]
        /\ askedSinceRunning' = AskedAfter(stepStatus')
        /\ running' = running \cup {step.id}
        /\ step_start_times' = [step_start_times EXCEPT ![step.id] = now]
    /\ ready' = Tail(ready)
    /\ ctrlPc' = IF ready' = << >> THEN "term" ELSE "launch"
    /\ UNCHANGED <<steps, dagOut, runStatus, runError, stepError, checkpoint, inputs,
                   triggered, questionEvents, nextQuestionId, completed,
                   failed, skipped, paused_notified, toPoll, exitCode,
                   workerVars, now, launched, abortRequested, abortPolled,
                   skipCause, timedOut,
                   events, iterationReady, resumedTerminal,
                   pauses,
                   inTime,
                   runMessage, firstFailed,
                   cpOut,
                   killed,
                   lastHeartbeat>>

\* 2. if not running: mark the remaining steps skipped and leave the loop;
\* otherwise snapshot list(running) for the poll pass.
CtrlCheckTermination ==
    /\ ctrlPc = "term"
    /\ IF running = {}
       THEN LET remaining == ((StepIdSet \ completed) \ failed) \ skipped IN
            /\ stepStatus' = [s \in StepIds |->
                                IF s \in remaining THEN "skipped" ELSE stepStatus[s]]
            /\ skipped' = skipped \cup remaining
            /\ skipCause' = [s \in StepIds |->
                                IF s \in remaining THEN "blocked" ELSE skipCause[s]]
            /\ events' = SkippedNotices(events, remaining)
            /\ ctrlPc' = "summary"
            /\ UNCHANGED <<toPoll, abortPolled>>
       ELSE /\ toPoll' = running
            /\ abortPolled' = abortRequested
            /\ ctrlPc' = "poll"
            /\ UNCHANGED <<stepStatus, skipped, skipCause, events>>
    /\ askedSinceRunning' = AskedAfter(stepStatus')
    /\ iterationReady' = {}
    /\ UNCHANGED <<steps, dagOut, runStatus, runError, stepError, checkpoint, inputs,
                   triggered, questionEvents, nextQuestionId, completed,
                   failed, running, paused_notified, step_start_times, ready,
                   exitCode, workerVars, now, launched, abortRequested,
                   timedOut,
                   resumedTerminal,
                   pauses,
                   inTime,
                   runMessage, firstFailed,
                   cpOut,
                   killed,
                   lastHeartbeat>>


\* timeout_seconds = step.timeout_minutes * 60
TimeoutSeconds(step) == step.timeout_minutes * SecondsPerMinute

\* elapsed = time.time() - step_start_times.get(step_id, time.time())
Elapsed_no_start_time(step_id) ==
    now - now

Elapsed(step_id) ==
    IF step_start_times[step_id] = -1 THEN 0 ELSE now - step_start_times[step_id]

TimedOut_after_status(step_id) ==
    /\ Elapsed(step_id) > TimeoutSeconds(StepOf(steps, step_id))
    /\ stepStatus[step_id] \notin Terminal

\* if elapsed > timeout_seconds
TimedOut(step_id) ==
    Elapsed(step_id) > TimeoutSeconds(StepOf(steps, step_id))

\* _skip_transitive_dependents: the set of newly skipped step ids
skip_transitive_dependents(failed_step_id, already_skipped, completedSet, runningSet) ==
    get_transitive_dependents(failed_step_id, steps)
        \ (completedSet \cup runningSet \cup already_skipped)

WaitingNotice_every_poll(step_id) ==
    Log("progress_waiting", step_id, "controller")

\* _poll_step_once, status paused: the "Waiting for user input" progress
\* event, written unless paused_notified[step_id] is already set
WaitingNotice(step_id) ==
    IF step_id \notin paused_notified
    THEN Log("progress_waiting", step_id, "controller")
    ELSE events

\* _poll_step_once, status running: the "Step resumed after user input"
\* progress event, written when paused_notified[step_id] is set
ResumedNotice(step_id) ==
    IF step_id \in paused_notified
    THEN Log("progress_resumed", step_id, "controller")
    ELSE events

\* 3. one iteration of "for step_id in list(running)": the timeout branch,
\* or _poll_step_once followed by the completion handling and the cascade.
CtrlPollStep(step_id) ==
    /\ ctrlPc = "poll"
    /\ step_id \in toPoll
    /\ toPoll' = toPoll \ {step_id}
    /\ IF TimedOut(step_id)
       THEN LET newly == skip_transitive_dependents(
                             step_id, skipped, completed, running \ {step_id}) IN
            /\ stepStatus' = [s \in StepIds |->
                                IF s = step_id THEN "failed"
                                ELSE IF s \in newly THEN "skipped"
                                ELSE stepStatus[s]]
            /\ stepError' = [stepError EXCEPT ![step_id] = "STEP_TIMEOUT"]
            /\ running' = running \ {step_id}
            /\ failed' = failed \cup {step_id}
            /\ skipped' = skipped \cup newly
            /\ skipCause' = [s \in StepIds |->
                                IF s \in newly THEN step_id ELSE skipCause[s]]
            /\ timedOut' = timedOut \cup {step_id}
            /\ events' = SkippedNotices(
                             Log("step_failed", step_id, "controller"), newly)
            /\ firstFailed' = IF failed = {} THEN step_id ELSE firstFailed
            /\ UNCHANGED <<completed, paused_notified>>
       ELSE LET status == stepStatus[step_id] IN
            /\ timedOut' = timedOut
            /\ firstFailed' = IF status = "failed" /\ failed = {}
                              THEN step_id ELSE firstFailed
            /\ CASE status = "completed" ->
                      \* _handle_step_completion rewrites status and summary
                      \* and writes step_completed
                      /\ running' = running \ {step_id}
                      /\ completed' = completed \cup {step_id}
                      /\ events' = Log("step_completed", step_id, "controller")
                      /\ UNCHANGED <<stepStatus, stepError, failed, skipped,
                                     paused_notified, skipCause>>
                 [] status = "failed" ->
                      LET newly == skip_transitive_dependents(
                                       step_id, skipped, completed,
                                       running \ {step_id}) IN
                      /\ running' = running \ {step_id}
                      /\ stepStatus' = [s \in StepIds |->
                                          IF s \in newly THEN "skipped"
                                          ELSE stepStatus[s]]
                      /\ stepError' = [stepError EXCEPT ![step_id] = "STEP_FAILED"]
                      /\ events' = SkippedNotices(
                                       Log("step_failed", step_id, "controller"),
                                       newly)
                      /\ failed' = failed \cup {step_id}
                      /\ skipped' = skipped \cup newly
                      /\ skipCause' = [s \in StepIds |->
                                          IF s \in newly THEN step_id
                                          ELSE skipCause[s]]
                      /\ UNCHANGED <<completed, paused_notified>>
                 [] status = "skipped" ->
                      /\ running' = running \ {step_id}
                      /\ skipped' = skipped \cup {step_id}
                      /\ UNCHANGED <<stepStatus, stepError, completed, failed,
                                     paused_notified, skipCause, events>>
                 [] status = "paused" ->
                      \* progress: "Waiting for user input ..."
                      /\ paused_notified' = paused_notified \cup {step_id}
                      /\ events' = WaitingNotice(step_id)
                      /\ UNCHANGED <<stepStatus, stepError, completed, failed,
                                     running, skipped, skipCause>>
                 [] status = "running" ->
                      \* progress: "Step resumed after user input"
                      /\ paused_notified' = paused_notified \ {step_id}
                      /\ events' = ResumedNotice(step_id)
                      /\ UNCHANGED <<stepStatus, stepError, completed, failed,
                                     running, skipped, skipCause>>
                 [] OTHER ->
                      UNCHANGED <<stepStatus, stepError, completed, failed,
                                  running, skipped, paused_notified, skipCause,
                                  events>>
    /\ askedSinceRunning' = AskedAfter(stepStatus')
    /\ UNCHANGED <<steps, dagOut, runStatus, runError, checkpoint, inputs, triggered,
                   questionEvents, nextQuestionId, step_start_times, ready,
                   ctrlPc, exitCode, workerVars, now, launched,
                   abortRequested, abortPolled,
                   iterationReady, resumedTerminal,
                   pauses,
                   inTime,
                   runMessage,
                   cpOut,
                   killed,
                   lastHeartbeat>>

\* 4. time.sleep(DEFAULT_POLL_INTERVAL), back to the top of the loop
CtrlSleep ==
    /\ ctrlPc = "poll"
    /\ toPoll = {}
    /\ ctrlPc' = "top"
    /\ UNCHANGED <<steps, dagOut, storeVars, completed, failed, running, skipped,
                   paused_notified, step_start_times, ready, toPoll, exitCode,
                   workerVars, now, histVars,
                   cpOut>>

\* _write_summary and the rest of entrypoint.main: the run is completed when
\* nothing failed and nothing was skipped; otherwise _write_summary raises
\* (StepFailedError, or IndexError on failed_ids[0] when only skips exist)
\* and the generic handler writes failed / AGENT_CRASH and exits 1.
write_summary_failed_only(completedSet, failedSet, skippedSet) ==
    LET failed_ids == SortedIds(failedSet) IN
    IF failedSet = {} THEN NoMessage
    ELSE [error |-> "StepFailedError", step_id |-> failed_ids[1],
          failed_ids |-> failed_ids]

\* _write_summary: returns normally when nothing failed and nothing was
\* skipped; otherwise raises StepFailedError(failed_ids[0], "... Failed
\* steps: {failed_ids}"), and failed_ids[0] raises IndexError when the
\* failed set is empty
write_summary(completedSet, failedSet, skippedSet) ==
    LET failed_ids == SortedIds(failedSet) IN
    IF failedSet = {} /\ skippedSet = {} THEN NoMessage
    ELSE IF failed_ids = << >>
    THEN [error |-> "IndexError", step_id |-> "none", failed_ids |-> << >>]
    ELSE [error |-> "StepFailedError", step_id |-> failed_ids[1],
          failed_ids |-> failed_ids]

CtrlFinalize ==
    /\ ctrlPc = "summary"
    /\ LET raised == IF steps = {} THEN NoMessage
                     ELSE write_summary(completed, failed, skipped) IN
       IF raised.error = "none"
       THEN /\ events' = Log("playbook_completed", "none", "controller")
            /\ runStatus' = "completed"
            /\ exitCode' = 0
            /\ UNCHANGED <<runError, runMessage>>
       ELSE /\ events' = Log("playbook_failed", "none", "controller")
            /\ runStatus' = "failed"
            /\ runError' = "AGENT_CRASH"
            /\ runMessage' = raised
            /\ exitCode' = 1
    /\ ctrlPc' = "exited"
    /\ UNCHANGED <<steps, dagOut, stepStatus, stepError, checkpoint, inputs, triggered,
                   questionEvents, nextQuestionId, completed, failed, running,
                   skipped, paused_notified, step_start_times, ready, toPoll,
                   workerVars, now, histVars,
                   cpOut,
                   lastHeartbeat>>


(***************************************************************************)
(* Step workers: entrypoint.main of the step agents and hitl_tools         *)
(***************************************************************************)
KindOf(step_id) == StepOf(steps, step_id).kind

\* report-generator / calendar-manager: read_run_status before starting;
\* RunAbortedError leads to the abort handler.
WorkerBoot(s) ==
    /\ wpc[s] = "boot"
    /\ wpc' = [wpc EXCEPT ![s] =
                 IF runStatus = "aborted" THEN "abort_status" ELSE "set_running"]
    /\ UNCHANGED <<steps, dagOut, storeVars, ctrlVars, wphase, wqid, now, histVars,
                   wexit,
                   winput,
                   cpOut>>

\* checkpoint.load_checkpoint: the checkpoint field of the step document
load_checkpoint(s) ==
    IF stepStatus[s] = "absent" THEN NoCheckpoint ELSE checkpoint[s]

\* json.dump(data, f): the text of the object, as its members in the order
\* of the dict
json_dump(data) ==
    << <<"phase", data.phase>>, <<"questionId", data.questionId>> >>

\* the value of a member of a JSON object
Member(text, key) ==
    LET i == CHOOSE k \in 1..Len(text) : text[k][1] = key IN text[i][2]

\* json.load(f): the dict of the members of the text
json_load(text) ==
    [phase |-> Member(text, "phase"), questionId |-> Member(text, "questionId")]

\* interactive step_agent.checkpoint.load_checkpoint: None if the file
\* /shared/checkpoints/step-{step_id}.json does not exist, else json.load
load_checkpoint_file(files, s) ==
    IF files[s] = "missing" THEN NoCheckpoint ELSE json_load(files[s])

\* interactive step_agent.checkpoint.save_checkpoint: json.dump(data) into
\* the file, opened with mode "w"
save_checkpoint_file(files, s, data) ==
    [files EXCEPT ![s] = json_dump(data)]

\* interactive step_agent.checkpoint.clear_checkpoint: os.remove(path) if
\* the file exists
clear_checkpoint_file(files, s) ==
    IF files[s] # "missing" THEN [files EXCEPT ![s] = "missing"] ELSE files

\* what read_input returns when no document matches (None)
NoInput == [questionId |-> 0, stepId |-> "none", type |-> "none"]

\* read_input(question_id): where("questionId", "==", question_id).limit(1);
\* any one of the matching documents, NoInput when there is none
read_input(question_id) ==
    LET matching == { inp \in inputs : inp.questionId = question_id }
    IN  IF matching = {} THEN {NoInput} ELSE matching

ResumeTarget_no_abort_check(s, input_doc) ==
    LET cp == load_checkpoint(s)
    IN  IF cp = NoCheckpoint THEN "fail_evt"
        ELSE IF input_doc = NoInput THEN "fail_evt"
        ELSE IF cp.phase = "waiting_for_answer" /\ KindOf(s) = "interactive"
             THEN "set_running"
        ELSE IF cp.phase = "waiting_for_approval" THEN "set_running"
        ELSE "fail_evt"

\* main of a worker started with RESUME_THREAD_ID: load_checkpoint,
\* read_run_status, read_input, then dispatch on the checkpoint's phase;
\* where the worker goes once it has read input_doc
ResumeTarget(s, input_doc) ==
    LET cp == load_checkpoint(s)
    IN  IF cp = NoCheckpoint THEN "fail_evt"
        ELSE IF runStatus = "aborted" THEN "abort_status"
        ELSE IF input_doc = NoInput THEN "fail_evt"
        ELSE IF input_doc.type = "abort" THEN "abort_status"
        ELSE IF cp.phase = "waiting_for_answer" /\ KindOf(s) = "interactive"
             THEN "set_running"
        ELSE IF cp.phase = "waiting_for_approval" THEN "set_running"
        ELSE "fail_evt"

WorkerResumeBoot(s) ==
    /\ wpc[s] = "resume_boot"
    /\ \E input_doc \in read_input(load_checkpoint(s).questionId) :
          /\ wpc' = [wpc EXCEPT ![s] = ResumeTarget(s, input_doc)]
          /\ winput' = [winput EXCEPT ![s] =
                          IF load_checkpoint(s) = NoCheckpoint \/ runStatus = "aborted"
                          THEN "none" ELSE input_doc.type]
    /\ resumedTerminal' = IF stepStatus[s] \in Terminal
                          THEN resumedTerminal \cup {s}
                          ELSE resumedTerminal \ {s}
    /\ wphase' = [wphase EXCEPT ![s] =
                    IF load_checkpoint(s).phase = "waiting_for_answer"
                    THEN "after_question" ELSE "after_approval"]
    /\ UNCHANGED <<steps, dagOut, storeVars, ctrlVars, wqid, wexit, now,
                   launched, abortRequested, abortPolled, askedSinceRunning,
                   skipCause, timedOut, iterationReady,
                   pauses,
                   inTime,
                   firstFailed,
                   cpOut,
                   killed>>

\* first statements of every phase function:
\* update_step_status(org_id, run_id, step_id, "running") and, in the fresh
\* phase, write_event("step_started")
WorkerSetRunning(s) ==
    /\ wpc[s] = "set_running"
    /\ stepStatus' = [stepStatus EXCEPT ![s] = "running"]
    /\ events' = IF wphase[s] = "fresh"
                  THEN Log("step_started", s, "worker") ELSE events
    /\ askedSinceRunning' = AskedAfter(stepStatus')
    /\ wpc' = [wpc EXCEPT ![s] = "work"]
    /\ UNCHANGED <<steps, dagOut, runStatus, runError, stepError, checkpoint, inputs,
                   triggered, questionEvents, nextQuestionId, ctrlVars, wphase,
                   wqid, now, launched, abortRequested, abortPolled,
                   skipCause, timedOut,
                   wexit, iterationReady, resumedTerminal,
                   winput,
                   pauses,
                   inTime,
                   runMessage, firstFailed,
                   cpOut,
                   killed,
                   lastHeartbeat>>

\* the HITL primitive the phase ends with, "none" when the phase completes
HitlPhaseOf(kind, phase) ==
    IF kind = "interactive" /\ phase = "fresh" THEN "waiting_for_answer"
    ELSE IF kind = "interactive" /\ phase = "after_question" THEN "waiting_for_approval"
    ELSE IF kind = "provisioner" /\ phase = "fresh" THEN "waiting_for_approval"
    ELSE "none"

\* ask_user / request_approval, first write: question_id = uuid4();
\* write_event("question" | "approval_request", payload with that id)
WorkerHitlEvent(s) ==
    /\ wpc[s] = "work"
    /\ HitlPhaseOf(KindOf(s), wphase[s]) # "none"
    /\ nextQuestionId <= MaxQuestions
    /\ questionEvents' = questionEvents \cup
           {[stepId |-> s, questionId |-> nextQuestionId,
             type |-> IF HitlPhaseOf(KindOf(s), wphase[s]) = "waiting_for_answer"
                      THEN "question" ELSE "approval_request"]}
    /\ wqid' = [wqid EXCEPT ![s] = nextQuestionId]
    /\ nextQuestionId' = nextQuestionId + 1
    /\ askedSinceRunning' = [askedSinceRunning EXCEPT ![s] = @ + 1]
    /\ wpc' = [wpc EXCEPT ![s] = "hitl_checkpoint"]
    /\ UNCHANGED <<steps, dagOut, runStatus, runError, stepStatus, stepError,
                   checkpoint, inputs, triggered, ctrlVars, wphase, now,
                   launched, abortRequested, abortPolled, skipCause, timedOut,
                   events, wexit, iterationReady, resumedTerminal,
                   winput,
                   pauses,
                   inTime,
                   runMessage, firstFailed,
                   cpOut,
                   killed,
                   lastHeartbeat>>

save_checkpoint_no_id(s, data) ==
    [checkpoint EXCEPT ![s] = [data EXCEPT !.questionId = 0]]

\* checkpoint.save_checkpoint: update({"checkpoint": data})
save_checkpoint(s, data) ==
    [checkpoint EXCEPT ![s] = data]

\* checkpoint.clear_checkpoint: update({"checkpoint": DELETE_FIELD})
clear_checkpoint(s) ==
    [checkpoint EXCEPT ![s] = NoCheckpoint]

\* ask_user / request_approval, second write: save_checkpoint
WorkerHitlCheckpoint(s) ==
    /\ wpc[s] = "hitl_checkpoint"
    /\ checkpoint' = save_checkpoint(s,
           [phase |-> HitlPhaseOf(KindOf(s), wphase[s]), questionId |-> wqid[s]])
    /\ wpc' = [wpc EXCEPT ![s] = "hitl_pause"]
    /\ UNCHANGED <<steps, dagOut, runStatus, runError, stepStatus, stepError, inputs,
                   triggered, questionEvents, nextQuestionId, ctrlVars, wphase,
                   wqid, now, histVars,
                   events, wexit,
                   winput,
                   runMessage,
                   cpOut,
                   lastHeartbeat>>

\* ask_user / request_approval, third write and sys.exit(0)
WorkerHitlPause(s) ==
    /\ wpc[s] = "hitl_pause"
    /\ stepStatus' = [stepStatus EXCEPT ![s] = "paused"]
    /\ askedSinceRunning' = AskedAfter(stepStatus')
    /\ wpc' = [wpc EXCEPT ![s] = "idle"]
    /\ wexit' = [wexit EXCEPT ![s] = 0]
    /\ pauses' = [pauses EXCEPT ![s] = @ + 1]
    /\ UNCHANGED <<steps, dagOut, runStatus, runError, stepError, checkpoint, inputs,
                   triggered, questionEvents, nextQuestionId, ctrlVars, wphase,
                   wqid, now, launched, abortRequested, abortPolled,
                   skipCause, timedOut,
                   events, iterationReady, resumedTerminal,
                   winput,
                   inTime,
                   runMessage, firstFailed,
                   cpOut,
                   killed,
                   lastHeartbeat>>

\* the last phase: (HITL agents) clear_checkpoint, then write_event
\* step_completed
WorkerCompleteEvent(s) ==
    /\ wpc[s] = "work"
    /\ HitlPhaseOf(KindOf(s), wphase[s]) = "none"
    /\ checkpoint' = IF KindOf(s) \in HitlKinds
                     THEN clear_checkpoint(s) ELSE checkpoint
    /\ events' = Log("step_completed", s, "worker")
    /\ wpc' = [wpc EXCEPT ![s] = "complete_status"]
    /\ UNCHANGED <<steps, dagOut, runStatus, runError, stepStatus, stepError, inputs,
                   triggered, questionEvents, nextQuestionId, ctrlVars, wphase,
                   wqid, now, histVars,
                   wexit,
                   winput,
                   runMessage,
                   cpOut,
                   lastHeartbeat>>

\* update_step_status("completed", result_summary) and sys.exit(0)
WorkerCompleteStatus(s) ==
    /\ wpc[s] = "complete_status"
    /\ stepStatus' = [stepStatus EXCEPT ![s] = "completed"]
    /\ askedSinceRunning' = AskedAfter(stepStatus')
    /\ wpc' = [wpc EXCEPT ![s] = "idle"]
    /\ wexit' = [wexit EXCEPT ![s] = 0]
    /\ inTime' = IF TimedOut(s) THEN inTime ELSE inTime \cup {s}
    /\ UNCHANGED <<steps, dagOut, runStatus, runError, stepError, checkpoint, inputs,
                   triggered, questionEvents, nextQuestionId, ctrlVars, wphase,
                   wqid, now, launched, abortRequested, abortPolled,
                   skipCause, timedOut,
                   events, iterationReady, resumedTerminal,
                   winput,
                   pauses,
                   runMessage, firstFailed,
                   cpOut,
                   killed,
                   lastHeartbeat>>

\* any exception raised by the work of a phase reaches "except Exception"
WorkerRaise(s) ==
    /\ wpc[s] = "work"
    /\ wpc' = [wpc EXCEPT ![s] = "fail_evt"]
    /\ UNCHANGED <<steps, dagOut, storeVars, ctrlVars, wphase, wqid, now, histVars,
                   wexit,
                   winput,
                   cpOut>>

\* except Exception: write_event("step_failed"), then
\* update_step_status("failed", STEP_AGENT_CRASH)
WorkerFailStatus(s) ==
    /\ wpc[s] = "fail_evt"
    /\ stepStatus' = [stepStatus EXCEPT ![s] = "failed"]
    /\ stepError' = [stepError EXCEPT ![s] = "STEP_AGENT_CRASH"]
    /\ events' = Log("step_failed", s, "worker")
    /\ askedSinceRunning' = AskedAfter(stepStatus')
    /\ wpc' = [wpc EXCEPT ![s] =
                 IF KindOf(s) \in HitlKinds THEN "fail_clear" ELSE "idle"]
    /\ wexit' = [wexit EXCEPT ![s] =
                   IF KindOf(s) \in HitlKinds THEN -1 ELSE 1]
    /\ UNCHANGED <<steps, dagOut, runStatus, runError, checkpoint, inputs, triggered,
                   questionEvents, nextQuestionId, ctrlVars, wphase, wqid, now,
                   launched, abortRequested, abortPolled, skipCause, timedOut,
                   iterationReady, resumedTerminal,
                   winput,
                   pauses,
                   inTime,
                   runMessage, firstFailed,
                   cpOut,
                   killed,
                   lastHeartbeat>>

\* except RunAbortedError: update_step_status("skipped")
WorkerAbortStatus(s) ==
    /\ wpc[s] = "abort_status"
    /\ stepStatus' = [stepStatus EXCEPT ![s] = "skipped"]
    /\ askedSinceRunning' = AskedAfter(stepStatus')
    /\ skipCause' = [skipCause EXCEPT ![s] = "abort"]
    /\ wpc' = [wpc EXCEPT ![s] =
                 IF KindOf(s) \in HitlKinds THEN "abort_clear" ELSE "idle"]
    /\ wexit' = [wexit EXCEPT ![s] =
                   IF KindOf(s) \in HitlKinds THEN -1 ELSE 0]
    /\ UNCHANGED <<steps, dagOut, runStatus, runError, stepError, checkpoint, inputs,
                   triggered, questionEvents, nextQuestionId, ctrlVars, wphase,
                   wqid, now, launched, abortRequested, abortPolled, timedOut,
                   events, iterationReady, resumedTerminal,
                   winput,
                   pauses,
                   inTime,
                   runMessage, firstFailed,
                   cpOut,
                   killed,
                   lastHeartbeat>>

\* clear_checkpoint and sys.exit at the end of both handlers (HITL agents)
WorkerClearAndExit(s) ==
    /\ wpc[s] \in {"fail_clear", "abort_clear"}
    /\ checkpoint' = clear_checkpoint(s)
    /\ wexit' = [wexit EXCEPT ![s] = IF wpc[s] = "abort_clear" THEN 0 ELSE 1]
    /\ wpc' = [wpc EXCEPT ![s] = "idle"]
    /\ UNCHANGED <<steps, dagOut, runStatus, runError, stepStatus, stepError, inputs,
                   triggered, questionEvents, nextQuestionId, ctrlVars, wphase,
                   wqid, now, histVars,
                   events,
                   winput,
                   runMessage,
                   cpOut,
                   lastHeartbeat>>

(***************************************************************************)
(* Environment: the user, the resume trigger, the clock                    *)
(***************************************************************************)
\* the UI writes an input document in response to a question / approval: an
\* answer or decision, or an abort (each at most once per question)
UserInput(q, type) ==
    /\ q \in questionEvents
    /\ \A inp \in inputs : inp.questionId = q.questionId => inp.type # type
    /\ inputs' = inputs \cup
           {[questionId |-> q.questionId, stepId |-> q.stepId, type |-> type]}
    /\ UNCHANGED <<steps, dagOut, runStatus, runError, stepStatus, stepError,
                   checkpoint, triggered, questionEvents, nextQuestionId,
                   ctrlVars, workerVars, now, histVars,
                   events,
                   runMessage,
                   cpOut,
                   lastHeartbeat>>

\* onInputReceived: an abort input sets run.status = aborted; any other input
\* whose step is paused on the matching question launches a resume worker.
ResumeTrigger(inp) ==
    /\ inp \in inputs
    /\ inp \notin triggered
    /\ triggered' = triggered \cup {inp}
    /\ IF inp.type = "abort"
       THEN /\ runStatus' = IF runStatus = "running" THEN "aborted" ELSE runStatus
            /\ abortRequested' = (abortRequested \/ runStatus = "running")
            /\ UNCHANGED <<wpc, wexit>>
       ELSE LET launch == /\ stepStatus[inp.stepId] = "paused"
                          /\ checkpoint[inp.stepId].questionId = inp.questionId
            IN  /\ wpc' = IF launch
                          THEN [wpc EXCEPT ![inp.stepId] = "resume_boot"]
                          ELSE wpc
                /\ wexit' = IF launch
                            THEN [wexit EXCEPT ![inp.stepId] = -1]
                            ELSE wexit
                /\ UNCHANGED <<runStatus, abortRequested>>
    /\ UNCHANGED <<steps, dagOut, runError, stepStatus, stepError, checkpoint, inputs,
                   questionEvents, nextQuestionId, ctrlVars, wphase, wqid, now,
                   launched, abortPolled, askedSinceRunning, skipCause,
                   timedOut,
                   events, iterationReady, resumedTerminal,
                   winput,
                   pauses,
                   inTime,
                   runMessage, firstFailed,
                   cpOut,
                   killed,
                   lastHeartbeat>>

\* the user aborts the run: run.status = "aborted"
UserAbort ==
    /\ runStatus = "running"
    /\ ~abortRequested
    /\ runStatus' = "aborted"
    /\ abortRequested' = TRUE
    /\ UNCHANGED <<steps, dagOut, runError, stepStatus, stepError, checkpoint, inputs,
                   triggered, questionEvents, nextQuestionId, ctrlVars,
                   workerVars, now, launched, abortPolled, askedSinceRunning,
                   skipCause, timedOut,
                   events, iterationReady, resumedTerminal,
                   pauses,
                   inTime,
                   runMessage, firstFailed,
                   cpOut,
                   killed,
                   lastHeartbeat>>

\* the wall clock advances; time.time() is read only when a launch records
\* the start time and when a step is polled, so the clock is advanced there
Tick ==
    /\ now < MaxClock * ClockStep
    /\ \/ ctrlPc = "launch2"
       \/ ctrlPc = "poll" /\ toPoll # {}
    /\ now' = now + ClockStep
    /\ UNCHANGED <<steps, dagOut, storeVars, ctrlVars, workerVars, histVars,
                   cpOut>>

Next ==
    \/ CtrlStart
    \/ CtrlValidate
    \/ CtrlComputeReady
    \/ CtrlLaunchCreateJob
    \/ CtrlLaunchSetJobName
    \/ CtrlCheckTermination
    \/ \E s \in StepIds : CtrlPollStep(s)
    \/ CtrlSleep
    \/ CtrlFinalize
    \/ \E s \in StepIds : WorkerBoot(s)
    \/ \E s \in StepIds : WorkerResumeBoot(s)
    \/ \E s \in StepIds : WorkerSetRunning(s)
    \/ \E s \in StepIds : WorkerHitlEvent(s)
    \/ \E s \in StepIds : WorkerHitlCheckpoint(s)
    \/ \E s \in StepIds : WorkerHitlPause(s)
    \/ \E s \in StepIds : WorkerCompleteEvent(s)
    \/ \E s \in StepIds : WorkerCompleteStatus(s)
    \/ \E s \in StepIds : WorkerRaise(s)
    \/ \E s \in StepIds : WorkerFailStatus(s)
    \/ \E s \in StepIds : WorkerAbortStatus(s)
    \/ \E s \in StepIds : WorkerClearAndExit(s)
    \/ \E q \in questionEvents : \E type \in {"response", "abort"} : UserInput(q, type)
    \/ \E inp \in inputs : ResumeTrigger(inp)
    \/ UserAbort
    \/ Tick

Spec == Init /\ [][Next]_vars

\* a run of the controller over a playbook that may be invalid
InitAnyPlaybook ==
    /\ steps \in {EmptyPlaybook, SinglePlaybook, BranchPlaybook}
                    \cup InvalidPlaybooks
    /\ InitWith("start")

SpecAnyPlaybook == InitAnyPlaybook /\ [][Next]_vars

(***************************************************************************)
(* The DAG functions called on their own, in the order run_orchestration   *)
(* calls them: validate_dag first, the other two on a validated list.      *)
(***************************************************************************)
\* validate_dag(steps)
DagValidate ==
    /\ ctrlPc = "dag"
    /\ dagOut.op = "none"
    /\ dagOut' = [NoDagOut EXCEPT
                    !.op = "validate_dag",
                    !.error = validate_dag(steps),
                    !.list = IF validate_dag(steps) = "CyclicDependencyError"
                             THEN find_cycle(steps) ELSE << >>]
    /\ UNCHANGED <<steps, storeVars, ctrlVars, workerVars, now, histVars,
                   cpOut>>

Validated == ctrlPc = "dag" /\ dagOut.op # "none" /\ dagOut.error = "ok"

\* get_ready_steps(steps, completed, failed | skipped, running)
DagReady(arguments) ==
    /\ Validated
    /\ dagOut' = [NoDagOut EXCEPT
                    !.op = "get_ready_steps",
                    !.error = "ok",
                    !.arguments = arguments,
                    !.list = get_ready_steps(steps, arguments.completed,
                                             arguments.failed, arguments.running)]
    /\ UNCHANGED <<steps, storeVars, ctrlVars, workerVars, now, histVars,
                   cpOut>>

\* get_transitive_dependents(step_id, steps)
DagDependents(step_id) ==
    /\ Validated
    /\ step_id \in Ids(steps)
    /\ dagOut' = [NoDagOut EXCEPT
                    !.op = "get_transitive_dependents",
                    !.error = "ok",
                    !.step_id = step_id,
                    !.set = get_transitive_dependents(step_id, steps)]
    /\ UNCHANGED <<steps, storeVars, ctrlVars, workerVars, now, histVars,
                   cpOut>>

NextDag ==
    \/ DagValidate
    \/ \E arguments \in DagArguments(steps) : DagReady(arguments)
    \/ \E step_id \in DagIds : DagDependents(step_id)

SpecDag == InitDag /\ [][NextDag]_vars

(***************************************************************************)
(* A run in which workers may die: the worker's process ends (killed, out  *)
(* of memory, crashed outside its handlers) at any position before its     *)
(* terminal status write.  No user and no abort; the clock moves on while  *)
(* the controller sleeps between two poll passes.                          *)
(***************************************************************************)
\* the worker's process exits nonzero without another write
WorkerKilled(s) ==
    /\ wpc[s] \in {"boot", "set_running", "work", "complete_status", "fail_evt"}
    /\ wpc' = [wpc EXCEPT ![s] = "idle"]
    /\ wexit' = [wexit EXCEPT ![s] = 1]
    /\ killed' = killed \cup {s}
    /\ UNCHANGED <<steps, storeVars, ctrlVars, wphase, wqid, winput, now,
                   dagOut, cpOut, launched, abortRequested, abortPolled,
                   askedSinceRunning, skipCause, timedOut, iterationReady,
                   resumedTerminal, pauses, inTime, firstFailed>>

\* time.sleep(DEFAULT_POLL_INTERVAL): time.time() has moved on by the next
\* poll pass; the clock is followed for as long as a running step has not
\* reached its timeout
TickSleeping ==
    /\ ctrlPc = "poll" /\ toPoll = {}
    /\ \E s \in running : ~TimedOut(s)
    /\ now < Cardinality(StepIdSet) * ClockStep
    /\ now' = now + ClockStep
    /\ UNCHANGED <<steps, dagOut, storeVars, ctrlVars, workerVars, histVars,
                   cpOut>>

InitKilled ==
    /\ steps = BranchPlaybook
    /\ InitWith("start")

NextKilled ==
    \/ CtrlStart
    \/ CtrlValidate
    \/ CtrlComputeReady
    \/ CtrlLaunchCreateJob
    \/ CtrlLaunchSetJobName
    \/ CtrlCheckTermination
    \/ \E s \in StepIds : CtrlPollStep(s)
    \/ CtrlSleep
    \/ CtrlFinalize
    \/ \E s \in StepIds : WorkerBoot(s)
    \/ \E s \in StepIds : WorkerSetRunning(s)
    \/ \E s \in StepIds : WorkerCompleteEvent(s)
    \/ \E s \in StepIds : WorkerCompleteStatus(s)
    \/ \E s \in StepIds : WorkerRaise(s)
    \/ \E s \in StepIds : WorkerFailStatus(s)
    \/ \E s \in StepIds : WorkerKilled(s)
    \/ TickSleeping

\* the controller's loop and the workers' steps are weakly fair; the clock
\* moves on at infinitely many of the controller's sleeps
SpecKilled ==
    /\ InitKilled
    /\ [][NextKilled]_vars
    /\ \A s \in StepIds :
          /\ WF_vars(CtrlPollStep(s))
          /\ WF_vars(WorkerBoot(s))
          /\ WF_vars(WorkerSetRunning(s))
          /\ WF_vars(WorkerCompleteEvent(s))
          /\ WF_vars(WorkerCompleteStatus(s))
          /\ WF_vars(WorkerFailStatus(s))
    /\ WF_vars(CtrlStart) /\ WF_vars(CtrlValidate) /\ WF_vars(CtrlComputeReady)
    /\ WF_vars(CtrlLaunchCreateJob) /\ WF_vars(CtrlLaunchSetJobName)
    /\ WF_vars(CtrlCheckTermination) /\ WF_vars(CtrlSleep)
    /\ WF_vars(CtrlFinalize)
    /\ SF_vars(TickSleeping)

(***************************************************************************)
(* The checkpoint functions called on their own, on the step documents     *)
(* initialize_step_docs has created: both step_agent.checkpoint modules,   *)
(* the one on the step document and the one on the shared files.           *)
(***************************************************************************)
\* the checkpoints ask_user and request_approval build
CheckpointValues ==
    [phase : {"waiting_for_answer", "waiting_for_approval"},
     questionId : 1..MaxQuestions]

\* initialize_step_docs
CpInitializeDocs ==
    /\ ctrlPc = "checkpoint"
    /\ \E s \in StepIdSet : stepStatus[s] = "absent"
    /\ stepStatus' = [s \in StepIds |->
                        IF s \in StepIdSet THEN "pending" ELSE stepStatus[s]]
    /\ UNCHANGED <<steps, runStatus, runError, runMessage, stepError,
                   checkpoint, inputs, triggered, questionEvents,
                   nextQuestionId, events, ctrlVars, workerVars, now, dagOut,
                   cpOut, histVars,
                   lastHeartbeat>>

\* save_checkpoint(s, data)
CpSave(s, data) ==
    /\ ctrlPc = "checkpoint"
    /\ stepStatus[s] # "absent"
    /\ checkpoint' = save_checkpoint(s, data)
    /\ cpOut' = [call |-> [op |-> "save", step_id |-> s, data |-> data],
                 previous |-> cpOut.call,
                 error |-> "none",
                 result |-> NoCheckpoint,
                 file_result |-> NoCheckpoint,
                 files |-> save_checkpoint_file(cpOut.files, s, data)]
    /\ UNCHANGED <<steps, runStatus, runError, runMessage, stepStatus,
                   stepError, inputs, triggered, questionEvents,
                   nextQuestionId, events, ctrlVars, workerVars, now, dagOut,
                   histVars,
                   lastHeartbeat>>

\* load_checkpoint(s)
CpLoad(s) ==
    /\ ctrlPc = "checkpoint"
    /\ stepStatus[s] # "absent"
    /\ cpOut' = [call |-> [op |-> "load", step_id |-> s, data |-> NoCheckpoint],
                 previous |-> cpOut.call,
                 error |-> "none",
                 result |-> load_checkpoint(s),
                 file_result |-> load_checkpoint_file(cpOut.files, s),
                 files |-> cpOut.files]
    /\ UNCHANGED <<steps, storeVars, ctrlVars, workerVars, now, dagOut,
                   histVars>>

\* clear_checkpoint(s)
CpClear(s) ==
    /\ ctrlPc = "checkpoint"
    /\ stepStatus[s] # "absent"
    /\ checkpoint' = clear_checkpoint(s)
    /\ cpOut' = [call |-> [op |-> "clear", step_id |-> s, data |-> checkpoint[s]],
                 previous |-> cpOut.call,
                 error |-> "none",
                 result |-> NoCheckpoint,
                 file_result |-> NoCheckpoint,
                 files |-> clear_checkpoint_file(cpOut.files, s)]
    /\ UNCHANGED <<steps, runStatus, runError, runMessage, stepStatus,
                   stepError, inputs, triggered, questionEvents,
                   nextQuestionId, events, ctrlVars, workerVars, now, dagOut,
                   histVars,
                   lastHeartbeat>>

InitCheckpoint ==
    /\ steps = BranchPlaybook
    /\ InitWith("checkpoint")

NextCheckpoint ==
    \/ CpInitializeDocs
    \/ \E s \in StepIdSet : \E data \in CheckpointValues : CpSave(s, data)
    \/ \E s \in StepIdSet : CpLoad(s)
    \/ \E s \in StepIdSet : CpClear(s)

SpecCheckpoint == InitCheckpoint /\ [][NextCheckpoint]_vars

TypeOK ==
    /\ steps \in Playbooks
    /\ lastHeartbeat \in Int
    /\ runStatus \in {"pending", "running", "completed", "failed", "aborted"}
    /\ \A s \in StepIds :
          stepStatus[s] \in {"absent", "pending", "running", "paused"} \cup Terminal
    /\ completed \subseteq StepIdSet /\ failed \subseteq StepIdSet
    /\ running \subseteq StepIdSet /\ skipped \subseteq StepIdSet
    /\ exitCode \in {-1, 0, 1}


\* The pause / resume scenario on its own: no worker raises, nobody aborts,
\* no timeout elapses (the clock stands still), and the user answers a
\* question once its step is paused on it.  The controller loop, a started
\* worker, the resume trigger and the user all keep taking their next step.
AnswerPaused(q) ==
    /\ stepStatus[q.stepId] = "paused"
    /\ load_checkpoint(q.stepId).questionId = q.questionId
    /\ UserInput(q, "response")

InitResume ==
    /\ steps \in {SinglePlaybook, ChainPlaybook}
    /\ InitWith("start")

NextResume ==
    \/ CtrlStart
    \/ CtrlValidate
    \/ CtrlComputeReady
    \/ CtrlLaunchCreateJob
    \/ CtrlLaunchSetJobName
    \/ CtrlCheckTermination
    \/ \E s \in StepIds : CtrlPollStep(s)
    \/ CtrlSleep
    \/ CtrlFinalize
    \/ \E s \in StepIds : WorkerBoot(s)
    \/ \E s \in StepIds : WorkerResumeBoot(s)
    \/ \E s \in StepIds : WorkerSetRunning(s)
    \/ \E s \in StepIds : WorkerHitlEvent(s)
    \/ \E s \in StepIds : WorkerHitlCheckpoint(s)
    \/ \E s \in StepIds : WorkerHitlPause(s)
    \/ \E s \in StepIds : WorkerCompleteEvent(s)
    \/ \E s \in StepIds : WorkerCompleteStatus(s)
    \/ \E q \in questionEvents : AnswerPaused(q)
    \/ \E inp \in inputs : ResumeTrigger(inp)

SpecResume ==
    /\ InitResume
    /\ [][NextResume]_vars
    /\ \A s \in StepIds :
          /\ WF_vars(CtrlPollStep(s))
          /\ WF_vars(WorkerBoot(s))
          /\ WF_vars(WorkerResumeBoot(s))
          /\ WF_vars(WorkerSetRunning(s))
          /\ WF_vars(WorkerHitlEvent(s))
          /\ WF_vars(WorkerHitlCheckpoint(s))
          /\ WF_vars(WorkerHitlPause(s))
          /\ WF_vars(WorkerCompleteEvent(s))
          /\ WF_vars(WorkerCompleteStatus(s))
    /\ WF_vars(CtrlStart) /\ WF_vars(CtrlValidate) /\ WF_vars(CtrlComputeReady)
    /\ WF_vars(CtrlLaunchCreateJob) /\ WF_vars(CtrlLaunchSetJobName)
    /\ WF_vars(CtrlCheckTermination) /\ WF_vars(CtrlSleep)
    /\ WF_vars(CtrlFinalize)
    /\ WF_vars(\E q \in questionEvents : AnswerPaused(q))
    /\ WF_vars(\E inp \in inputs : ResumeTrigger(inp))

(***************************************************************************)
(* Properties                                                              *)
(***************************************************************************)
Finalizing == ctrlPc \in {"summary", "exited"}

\* steps that transitively depend on id
Descendants(id) == { s \in StepIdSet : id \in Ancestors(steps, s) }

\* C1: when run_orchestration has left its loop and finalizes, completed,
\* failed and skipped are pairwise disjoint and together are all step ids.
C1_FinalPartition ==
    Finalizing =>
        /\ completed \cap failed = {}
        /\ completed \cap skipped = {}
        /\ failed \cap skipped = {}
        /\ completed \cup failed \cup skipped = StepIdSet

C1_Witness ==
    /\ ctrlPc = "summary"
    /\ completed # {} /\ failed # {} /\ skipped # {}

\* C2: a step status that is completed, failed or skipped is never changed
\* to a different status by any later write.
C2_TerminalNeverOverwritten ==
    [][\A s \in StepIds :
          stepStatus[s] \in Terminal => stepStatus'[s] = stepStatus[s]]_vars

Rank(status) ==
    CASE status = "absent" -> 0
      [] status = "pending" -> 1
      [] status \in {"running", "paused"} -> 2
      [] OTHER -> 3

\* C3: every change of a stored step status goes forward along
\* pending -> running <-> paused -> {completed, failed, skipped}.
C3_StatusMonotonic ==
    [][\A s \in StepIds : Rank(stepStatus'[s]) >= Rank(stepStatus[s])]_vars

\* C4: whenever a step is reported completed (in the store or in the
\* controller's completed set), each of its dependencies has status completed.
C4_CompletedDepsCompleted ==
    \A s \in StepIdSet :
        (stepStatus[s] = "completed" \/ s \in completed) =>
            \A dep \in StepOf(steps, s).dependencies : stepStatus[dep] = "completed"

C4_Witness ==
    /\ steps = FanOutPlaybook
    /\ stepStatus["d"] = "completed"
    /\ "d" \in completed

\* C5: a step is launched only while every one of its dependencies is in the
\* controller's completed set (fan-out: d only after a, b and c).
C5_LaunchOnlyAfterDeps ==
    [][\A s \in StepIds :
          (s \notin launched /\ s \in launched') =>
              StepOf(steps, s).dependencies \subseteq completed]_vars

C5_Witness ==
    /\ steps = FanOutPlaybook
    /\ "d" \in launched
    /\ {"a", "b", "c"} \subseteq completed

\* C6: every step reported skipped has a transitive dependency with status
\* failed (in the store or in the controller's failed set), unless the step
\* itself was skipped because of an abort.
C6_SkippedHasFailedAncestor ==
    \A s \in StepIdSet :
        (stepStatus[s] = "skipped" \/ s \in skipped) =>
            \/ skipCause[s] = "abort"
            \/ \E dep \in Ancestors(steps, s) :
                  stepStatus[dep] = "failed" \/ dep \in failed

\* C7: a failure skips only transitive dependents of the failed step, and only
\* ones that never ran; every step without a failed or skipped transitive
\* dependency is launched; in a -> b -> c, a -> d with a completed and only b
\* failed, c is skipped, d completes and the run ends failed.
C7_CascadeOnlyDependents ==
    /\ \A s \in StepIdSet :
          skipCause[s] \in StepIdSet =>
              /\ s \in Descendants(skipCause[s])
              /\ s \notin launched
    /\ Finalizing =>
          \A s \in StepIdSet :
              Ancestors(steps, s) \cap (failed \cup skipped) = {} => s \in launched
    /\ ( /\ steps = CascadePlaybook
         /\ ctrlPc = "exited"
         /\ ~abortRequested
         /\ "a" \in completed
         /\ failed = {"b"} ) =>
            /\ skipped = {"c"}
            /\ "d" \in completed
            /\ runStatus = "failed"

C7_Witness ==
    /\ steps = CascadePlaybook
    /\ ctrlPc = "exited"
    /\ ~abortRequested
    /\ "a" \in completed
    /\ failed = {"b"}
    /\ skipCause["c"] = "b"

\* C8: a paused step has its checkpoint, and exactly one question or
\* approval_request event carrying the checkpoint's questionId was emitted for
\* it since it last became running.
C8_PausedHasCheckpointAndQuestion ==
    \A s \in StepIdSet :
        stepStatus[s] = "paused" =>
            /\ checkpoint[s] # NoCheckpoint
            /\ Cardinality({ q \in questionEvents :
                               /\ q.stepId = s
                               /\ q.questionId = checkpoint[s].questionId }) = 1
            /\ askedSinceRunning[s] = 1

C8_Witness ==
    /\ stepStatus["a"] = "paused"
    /\ checkpoint["a"].phase = "waiting_for_approval"
    /\ wpc["a"] = "idle"

\* C9: the timeout clock of a step starts at its launch and is never reset;
\* a step polled more than timeoutMinutes*60 seconds after its launch is marked
\* failed with STEP_TIMEOUT, its transitive dependents are skipped, and the
\* run is finalized as failed.
C9_TimeoutFromLaunch ==
    [][\A s \in StepIds :
          /\ (s \notin running /\ s \in running') => step_start_times'[s] = now
          /\ step_start_times[s] # -1 => step_start_times'[s] = step_start_times[s]
          /\ ( /\ s \in toPoll /\ s \notin toPoll'
               /\ now - step_start_times[s]
                     > StepOf(steps, s).timeout_minutes * SecondsPerMinute ) =>
                 /\ s \in failed'
                 /\ stepStatus'[s] = "failed"
                 /\ stepError'[s] = "STEP_TIMEOUT"
                 /\ Descendants(s) \subseteq skipped'
          /\ (s \in timedOut /\ ctrlPc' = "exited") =>
                 (runStatus' = "failed" /\ exitCode' = 1)]_vars

C9_Witness ==
    /\ ctrlPc = "exited"
    /\ "a" \in timedOut
    /\ wphase["a"] = "after_question"
    /\ skipCause["b"] = "a"
    /\ runStatus = "failed"

\* C10: once the controller has begun a poll pass after run.status was set to
\* aborted, it launches no further step and it exits with code 0.
C10_AbortStopsController ==
    [][abortPolled =>
          /\ launched' = launched
          /\ (ctrlPc' = "exited" => exitCode' = 0)]_vars

(***************************************************************************)
(* Properties of the DAG functions (specification SpecDag)                 *)
(***************************************************************************)
\* ids the steps named id depend on
DependenciesOf(stepList, id) ==
    UNION { st.dependencies : st \in { x \in stepList : x.id = id } }

\* ids reachable from the ids of idSet along dependency edges, idSet included
RECURSIVE DependencyClosure(_, _)
DependencyClosure(stepList, idSet) ==
    LET more == idSet \cup UNION { DependenciesOf(stepList, id) : id \in idSet }
    IN  IF more = idSet THEN idSet ELSE DependencyClosure(stepList, more)

\* ids id depends on, directly or indirectly
DependsOn(stepList, id) ==
    DependencyClosure(stepList, DependenciesOf(stepList, id))

HasCycle(stepList) == \E id \in Ids(stepList) : id \in DependsOn(stepList, id)

\* C14: validate_dag is total: it raises the cycle error for every step list
\* whose dependencies all exist and contain a cycle, and returns normally for
\* every step list whose dependencies all exist and contain no cycle.
C14_ValidateTotal ==
    dagOut.op = "validate_dag" =>
        /\ dagOut.error \in {"ok", "ValueError", "CyclicDependencyError"}
        /\ ~MissingDependency(steps) =>
              /\ HasCycle(steps) => dagOut.error = "CyclicDependencyError"
              /\ ~HasCycle(steps) => dagOut.error = "ok"

\* C15: validate_dag fails with the missing-dependency error exactly when some
\* step names a dependency that is no step of the list, and otherwise fails
\* with the cyclic error when a step depends on itself.
C15_MissingAndSelfDependency ==
    dagOut.op = "validate_dag" =>
        /\ dagOut.error = "ValueError" <=> MissingDependency(steps)
        /\ ( /\ ~MissingDependency(steps)
             /\ \E st \in steps : st.id \in st.dependencies )
              => dagOut.error = "CyclicDependencyError"

C15_Witness ==
    /\ dagOut.op = "validate_dag"
    /\ dagOut.error = "CyclicDependencyError"
    /\ \E st \in steps : st.dependencies = {st.id}
    /\ \E st \in steps : st.dependencies = {}

\* C16: get_ready_steps returns exactly the steps that are in none of
\* completed, failed | skipped and running and whose dependencies are all in
\* completed, each once, in ascending order of their order field.
C16_ReadyExactAndOrdered ==
    dagOut.op = "get_ready_steps" =>
        LET list == dagOut.list
            arguments == dagOut.arguments
        IN  /\ { list[i] : i \in 1..Len(list) } =
                 { st \in steps :
                     /\ st.id \notin arguments.completed
                     /\ st.id \notin arguments.failed
                     /\ st.id \notin arguments.running
                     /\ st.dependencies \subseteq arguments.completed }
            /\ \A i, j \in 1..Len(list) : i < j => list[i].order < list[j].order

C16_Witness ==
    /\ dagOut.op = "get_ready_steps"
    /\ Len(dagOut.list) = 2
    /\ dagOut.arguments.completed # {}

\* C17: on a validated step list get_transitive_dependents(s) does not contain
\* s and is exactly the set of steps that depend on s directly or indirectly.
C17_TransitiveDependentsExact ==
    dagOut.op = "get_transitive_dependents" =>
        /\ dagOut.step_id \notin dagOut.set
        /\ dagOut.set = { id \in Ids(steps) : dagOut.step_id \in DependsOn(steps, id) }

C17_Witness ==
    /\ dagOut.op = "get_transitive_dependents"
    /\ Cardinality(dagOut.set) = 2
    /\ \E st \in steps : st.dependencies = {dagOut.step_id}
    /\ \E st \in steps : st.dependencies # {} /\ dagOut.step_id \notin st.dependencies

\* C18: a step launched in the launch loop was ready when the loop began and
\* has a smaller order than every step of that ready list still to be
\* launched (a before b before c); when the loop is left, every step that was
\* ready at its beginning has been launched.
C18_LaunchAscendingSameIteration ==
    [][/\ \A s \in StepIds :
            (s \notin launched /\ s \in launched') =>
                /\ s \in iterationReady
                /\ \A t \in iterationReady \ launched' :
                      StepOf(steps, t).order > StepOf(steps, s).order
       /\ (ctrlPc \in {"top", "launch2"} /\ ctrlPc' = "term") =>
              iterationReady' \subseteq launched']_vars

C18_Witness ==
    /\ steps = FanOutPlaybook
    /\ ctrlPc = "term"
    /\ iterationReady = {"a", "b", "c"}
    /\ launched = {"a", "b", "c"}

\* C11: a resume worker that has loaded its checkpoint and reads run status
\* aborted, or reads an input of type abort, takes the abort handler: it sets
\* the step skipped, then clears the checkpoint and exits 0; on that path it
\* never enters a phase function and writes no event (no step_failed).
C11_ResumeAbortSkips ==
    [][\A s \in StepIds :
          /\ (wpc[s] = "resume_boot" /\ wpc'[s] # "resume_boot"
                  /\ load_checkpoint(s) # NoCheckpoint) =>
                 (wpc'[s] = "abort_status" <=>
                     (runStatus = "aborted" \/ winput'[s] = "abort"))
          /\ (wpc[s] = "abort_status" /\ wpc'[s] # "abort_status"
                  /\ KindOf(s) \in HitlKinds) =>
                 /\ stepStatus'[s] = "skipped"
                 /\ wpc'[s] = "abort_clear"
                 /\ events' = events
          /\ (wpc[s] = "abort_clear" /\ wpc'[s] # "abort_clear") =>
                 /\ checkpoint'[s] = NoCheckpoint
                 /\ wpc'[s] = "idle"
                 /\ wexit'[s] = 0
                 /\ events' = events]_vars

C11_Witness ==
    \E s \in StepIdSet :
        /\ winput[s] = "abort"
        /\ runStatus # "aborted"
        /\ wpc[s] = "idle"
        /\ wexit[s] = 0
        /\ stepStatus[s] = "skipped"
        /\ checkpoint[s] = NoCheckpoint
        /\ Logged("step_failed", s, "worker") = 0

\* C12: a resume worker that started while the stored status of its step was
\* terminal changes neither the status nor the error of the step and writes
\* no step_failed and no step_completed event.
C12_ResumeOfTerminalIsNoOp ==
    [][\A s \in StepIds :
          (s \in resumedTerminal /\ wpc'[s] # wpc[s]) =>
              /\ stepStatus'[s] = stepStatus[s]
              /\ stepError'[s] = stepError[s]
              /\ Logged("step_failed", s, "worker")' =
                     Logged("step_failed", s, "worker")
              /\ Logged("step_completed", s, "worker")' =
                     Logged("step_completed", s, "worker")]_vars

\* C19 as stated: once the controller has recorded a step completed, the log
\* holds one "waiting for user input" and one "resumed after user input"
\* progress event for each pause of the step.
C19_OneNoticePerPause ==
    \A s \in completed :
        /\ Logged("progress_waiting", s, "controller") = pauses[s]
        /\ Logged("progress_resumed", s, "controller") = pauses[s]

\* C19 amended: a pause is announced at most once and only when a poll finds
\* the step paused; a resume is announced at most once and only after an
\* announced pause; the two announcements alternate, the waiting one being
\* ahead exactly while paused_notified is set.
C19_NoticesAtMostOnceAlternating ==
    \A s \in StepIds :
        LET waiting == Logged("progress_waiting", s, "controller")
            resumed == Logged("progress_resumed", s, "controller")
        IN  /\ waiting <= pauses[s]
            /\ resumed <= waiting
            /\ waiting - resumed = IF s \in paused_notified THEN 1 ELSE 0

C19_Witness ==
    \E s \in completed :
        /\ pauses[s] = 2
        /\ Logged("progress_waiting", s, "controller") = 2
        /\ Logged("progress_resumed", s, "controller") = 2

\* C20: in the chain a -> b -> c, when the worker of every step has written
\* completed within the step's timeout and no worker has failed, the
\* controller ends with run status completed and playbook_completed logged.
C20_ChainCompletes ==
    ( /\ steps = ChainPlaybook
      /\ ctrlPc = "exited"
      /\ inTime = StepIdSet
      /\ \A s \in StepIdSet : Logged("step_failed", s, "worker") = 0 ) =>
        /\ runStatus = "completed"
        /\ Logged("playbook_completed", "none", "controller") = 1

\* a step is paused and an answer to the question of its checkpoint has been
\* written and not yet handled by the resume trigger
AnsweredWhilePaused(s) ==
    /\ stepStatus[s] = "paused"
    /\ \E inp \in inputs \ triggered :
          /\ inp.stepId = s
          /\ inp.type # "abort"
          /\ inp.questionId = load_checkpoint(s).questionId

\* C13: whenever a step is paused and a matching answer is written, the step
\* is eventually recorded completed by the controller and the run is
\* finalized.
C13_ResumeCompletes ==
    \A s \in StepIds :
        AnsweredWhilePaused(s) ~> (s \in completed /\ ctrlPc = "exited")

(***************************************************************************)
(* Properties of the run's outcome and of error handling                   *)
(***************************************************************************)
\* C21: when the run ends with failed steps, the run-level failure names as
\* its cause the step that failed first.
C21_CauseIsFirstFailed ==
    (ctrlPc = "exited" /\ failed # {}) =>
        /\ runStatus = "failed"
        /\ runMessage.step_id = firstFailed
        /\ runMessage.failed_ids = SortedIds(failed)

\* the ids of a step list are pairwise distinct
DistinctIds(stepList) == Cardinality(Ids(stepList)) = Cardinality(stepList)

\* cycle lists steps of stepList, each depends on the next, the last on the
\* first
IsConcreteCycle(stepList, cycle) ==
    /\ cycle # << >>
    /\ \A i \in 1..Len(cycle) : cycle[i] \in Ids(stepList)
    /\ \A i \in 1..(Len(cycle) - 1) :
          cycle[i + 1] \in DependenciesOf(stepList, cycle[i])
    /\ cycle[1] \in DependenciesOf(stepList, cycle[Len(cycle)])

\* C26 (specification SpecDag): whenever validate_dag raises the
\* cyclic-dependency error on a step list with pairwise distinct ids, the
\* cycle it carries is a concrete cycle of the list.
C26_CycleIsConcrete ==
    ( /\ dagOut.op = "validate_dag"
      /\ dagOut.error = "CyclicDependencyError"
      /\ DistinctIds(steps) ) =>
        IsConcreteCycle(steps, dagOut.list)

\* C22 (specification SpecAnyPlaybook): when validate_dag rejects the
\* playbook for a missing dependency target or for a cycle, the controller
\* launches no step, emits playbook_failed, writes the run status failed
\* with the code CYCLIC_DEPENDENCY for a cycle and PLAYBOOK_INVALID for the
\* missing target, and exits 1.
C22_ValidationFailureReported ==
    ( /\ ctrlPc = "exited"
      /\ (MissingDependency(steps) \/ HasCycle(steps)) ) =>
        /\ launched = {}
        /\ Logged("playbook_failed", "none", "controller") = 1
        /\ runStatus = "failed"
        /\ runError = IF MissingDependency(steps) THEN "PLAYBOOK_INVALID"
                      ELSE "CYCLIC_DEPENDENCY"
        /\ exitCode = 1

MatchingEvent(status) ==
    CASE status = "completed" -> "step_completed"
      [] status = "failed"    -> "step_failed"
      [] status = "skipped"   -> "progress_skipped"

\* C25: the matching event is in the log by the time a terminal status is in
\* the store: step_completed, step_failed or the skip notice for a step,
\* playbook_completed or playbook_failed for the run.
C25_TerminalStatusHasEvent ==
    /\ \A s \in StepIdSet :
          stepStatus[s] \in Terminal =>
              \E by \in {"controller", "worker"} :
                  Logged(MatchingEvent(stepStatus[s]), s, by) >= 1
    /\ runStatus = "completed" =>
          Logged("playbook_completed", "none", "controller") >= 1
    /\ runStatus = "failed" =>
          Logged("playbook_failed", "none", "controller") >= 1

\* the event ask_user / request_approval of the worker of s has written
AskedBy(s) ==
    [stepId |-> s, questionId |-> wqid[s],
     type |-> IF HitlPhaseOf(KindOf(s), wphase[s]) = "waiting_for_answer"
              THEN "question" ELSE "approval_request"]

\* C27: ask_user and request_approval write in this order: the question or
\* approval_request event with a fresh id, the checkpoint with the phase and
\* that id, the status paused, and then exit 0 without returning; a worker
\* that has yet to save the checkpoint or to write paused has not made the
\* later writes, and has made the earlier ones.
C27_HitlWriteOrder ==
    /\ \A s \in StepIdSet :
          /\ wpc[s] = "hitl_checkpoint" =>
                /\ AskedBy(s) \in questionEvents
                /\ checkpoint[s].questionId # wqid[s]
                /\ stepStatus[s] # "paused"
                /\ wexit[s] = -1
          /\ wpc[s] = "hitl_pause" =>
                /\ AskedBy(s) \in questionEvents
                /\ checkpoint[s] =
                       [phase |-> HitlPhaseOf(KindOf(s), wphase[s]),
                        questionId |-> wqid[s]]
                /\ stepStatus[s] # "paused"
                /\ wexit[s] = -1
          /\ (stepStatus[s] = "paused" /\ wpc[s] = "idle") =>
                /\ wexit[s] = 0
                /\ \E q \in questionEvents :
                      /\ q.stepId = s
                      /\ q.questionId = checkpoint[s].questionId
    /\ \A q1, q2 \in questionEvents :
          q1.questionId = q2.questionId => q1 = q2

\* ask_user has made its three writes for step a and exited
C27_Witness ==
    /\ stepStatus["a"] = "paused"
    /\ checkpoint["a"] = [phase |-> "waiting_for_answer", questionId |-> wqid["a"]]
    /\ wpc["a"] = "idle"
    /\ wexit["a"] = 0
    /\ pauses["a"] = 1

\* C29: a launched step has no dependency in failed or skipped, and once the
\* scheduling loop has ended no step is pending: every step is in completed,
\* failed or skipped, and a step that was never launched is skipped in the
\* store and in the skipped set.
C29_BlockedNeverLaunchedAndSwept ==
    /\ \A s \in launched :
          StepOf(steps, s).dependencies \cap (failed \cup skipped) = {}
    /\ ctrlPc \in {"summary", "exited"} =>
          \A s \in StepIdSet :
              /\ stepStatus[s] # "pending"
              /\ s \in completed \cup failed \cup skipped
              /\ s \notin launched =>
                    (stepStatus[s] = "skipped" /\ s \in skipped)

\* the final sweep has skipped the never-launched step c, blocked behind a
\* step that was skipped without a cascade
C29_Witness ==
    /\ ctrlPc = "exited"
    /\ skipCause["c"] = "blocked"
    /\ "c" \notin launched
    /\ stepStatus["c"] = "skipped"

\* C30: a step document holds a checkpoint only while its status is paused;
\* in particular a step whose status is completed, failed or skipped, and
\* whose worker has exited, holds none.
C30_NoCheckpointAfterTerminal ==
    \A s \in StepIdSet :
        (stepStatus[s] \in Terminal /\ wpc[s] = "idle")
            => checkpoint[s] = NoCheckpoint

(***************************************************************************)
(* Properties of a run in which workers die (specification SpecKilled)     *)
(***************************************************************************)
\* the controller has written failed for step s (the timeout branch, the
\* only place where it does) and recorded it, has emitted step_failed for it
\* and has cascade-skipped its transitive dependents, and the run has ended
\* with every other step finished
FailedAndCascaded(s) ==
    /\ s \in failed
    /\ s \in timedOut
    /\ stepError[s] = "STEP_TIMEOUT"
    /\ Logged("step_failed", s, "controller") >= 1
    /\ \A t \in get_transitive_dependents(s, steps) :
          /\ t \in skipped
          /\ stepStatus[t] = "skipped"
          /\ skipCause[t] \in failed
    /\ ctrlPc = "exited"
    /\ completed \cup failed \cup skipped = StepIdSet

\* C28: if the worker of a launched step exits without having written a
\* terminal status, the controller eventually marks the step failed, emits
\* step_failed and cascade-skips its transitive dependents, and the steps of
\* the other branches are carried to their end.
C28_KilledWorkerIsFailed ==
    \A s \in StepIds : (s \in killed) ~> FailedAndCascaded(s)

\* the worker of b died, b was failed by the controller and c skipped, while
\* a, on its own branch, completed
C28_Witness ==
    /\ "b" \in killed
    /\ FailedAndCascaded("b")
    /\ skipCause["c"] = "b"
    /\ "a" \in completed

(***************************************************************************)
(* Properties of the run document and of the scheduling loop               *)
(***************************************************************************)
\* C31: once the run status has been set to aborted, it stays aborted: no
\* write of the controller replaces it.
C31_AbortedNeverOverwritten ==
    abortRequested => runStatus = "aborted"

\* src/playbook-agent/src/firestore_client.py, update_run_heartbeat: the
\* only writer of run.lastHeartbeat.  No statement of the controller calls
\* it, so no action of the model includes it.
update_run_heartbeat ==
    lastHeartbeat' = now

\* C32: every poll cycle of the scheduling loop touches run.lastHeartbeat:
\* when the loop is back at its top after a poll pass, the heartbeat has
\* been written.
C32_HeartbeatEveryPollCycle ==
    (ctrlPc = "top" /\ launched # {}) => lastHeartbeat >= 0

\* C33: a playbook without steps ends with run status completed and exit
\* code 0, nothing is launched, and the event log holds playbook_started and
\* playbook_completed and no other event.
C33_EmptyPlaybookCompletesQuietly ==
    (steps = EmptyPlaybook /\ ctrlPc = "exited") =>
        /\ runStatus = "completed"
        /\ exitCode = 0
        /\ launched = {}
        /\ \A e \in BagToSet(events) :
              e.type \in {"playbook_started", "playbook_completed"}

\* C34: the controller launches each step at most once in a run: it writes
\* at most one step_started event, hence creates at most one initial Job, for
\* each step id, whatever the step's stored status becomes afterwards, and
\* only for steps of the playbook.
C34_LaunchedAtMostOnce ==
    \A s \in StepIds :
        /\ Logged("step_started", s, "controller") <= 1
        /\ Logged("step_started", s, "controller") = 1 <=> s \in launched
        /\ s \in launched => s \in StepIdSet

\* a run has ended in which a step timed out, another step was skipped
\* after its launch, and each of them was launched exactly once
C34_Witness ==
    /\ ctrlPc = "exited"
    /\ \E s \in failed \cap timedOut :
          Logged("step_started", s, "controller") = 1
    /\ \E s \in skipped \cap launched :
          Logged("step_started", s, "controller") = 1

\* the four sets of the scheduling loop
LoopSets == <<running, completed, failed, skipped>>

\* C35: whenever the scheduling loop is at the start of an iteration, and in
\* every state between, the controller's sets running, completed, failed and
\* skipped are pairwise disjoint and hold only step ids of the playbook, so
\* the failure cascade has never put into skipped a step that is running,
\* completed or failed.
C35_LoopSetsDisjoint ==
    /\ \A i, j \in 1..4 : i # j => LoopSets[i] \cap LoopSets[j] = {}
    /\ \A i \in 1..4 : LoopSets[i] \subseteq StepIdSet

\* an iteration starts while one step is running, one is completed, one has
\* failed and its dependent was skipped by the cascade
C35_Witness ==
    /\ ctrlPc = "top"
    /\ running # {} /\ completed # {} /\ failed # {}
    /\ \E s \in skipped : skipCause[s] \in failed

C38_CompletedAtPollIsRecordedCompleted ==
    [][\A s \in StepIds :
          ( /\ s \in running /\ s \notin running'
            /\ stepStatus[s] = "completed" ) =>
              /\ s \in completed' /\ s \notin failed'
              /\ stepStatus'[s] = "completed"
              /\ skipped' = skipped]_vars

\* C39: the second status write of _launch_step (running with the job name)
\* does not replace a status the launched worker has already written: a
\* stored status paused, completed, failed or skipped of the step being
\* launched is the same after the write.
C39_SecondLaunchWriteKeepsWorkerStatus ==
    [][(ctrlPc = "launch2" /\ ctrlPc' # "launch2") =>
          LET step_id == Head(ready).id IN
          stepStatus[step_id] \in {"paused"} \cup Terminal =>
              stepStatus'[step_id] = stepStatus[step_id]]_vars

(***************************************************************************)
(* Runs in which launching a step can raise: resolve_image raises          *)
(* ValueError for a short image name when AGENT_IMAGE_REGISTRY is not set, *)
(* and create_step_job passes on the exception of the cluster API.         *)
(***************************************************************************)
\* for step in ready: update_run_status("running"), then _launch_step up to
\* the exception: status running and step_started are written, no Job is
\* created.  The exception leaves run_orchestration and reaches the generic
\* handler of entrypoint.main: playbook_failed, run status failed with
\* AGENT_CRASH, exit 1.
CtrlLaunchRaises ==
    /\ ctrlPc = "launch"
    /\ LET step == Head(ready) IN
        /\ stepStatus' = [stepStatus EXCEPT ![step.id] = "running"]
        /\ askedSinceRunning' = AskedAfter(stepStatus')
        /\ events' = events (+) SetToBag({
               [type |-> "step_started", stepId |-> step.id,
                by |-> "controller"],
               [type |-> "playbook_failed", stepId |-> "none",
                by |-> "controller"] })
        /\ launched' = launched \cup {step.id}
    /\ runStatus' = "failed"
    /\ runError' = "AGENT_CRASH"
    /\ runMessage' = [NoMessage EXCEPT !.error = "ValueError"]
    /\ exitCode' = 1
    /\ ctrlPc' = "exited"
    /\ UNCHANGED <<steps, dagOut, cpOut, stepError, checkpoint, inputs,
                   triggered, questionEvents, nextQuestionId, lastHeartbeat,
                   completed, failed, running, skipped, paused_notified,
                   step_start_times, ready, toPoll, workerVars, now,
                   abortRequested, abortPolled, skipCause, timedOut,
                   iterationReady, resumedTerminal, pauses, inTime, killed,
                   firstFailed>>

InitLaunchFault ==
    /\ steps \in {SinglePlaybook, BranchPlaybook}
    /\ InitWith("start")

NextLaunchFault ==
    \/ CtrlStart
    \/ CtrlValidate
    \/ CtrlComputeReady
    \/ CtrlLaunchCreateJob
    \/ CtrlLaunchRaises
    \/ CtrlLaunchSetJobName
    \/ CtrlCheckTermination
    \/ \E s \in StepIds : CtrlPollStep(s)
    \/ CtrlSleep
    \/ CtrlFinalize
    \/ \E s \in StepIds : WorkerBoot(s)
    \/ \E s \in StepIds : WorkerResumeBoot(s)
    \/ \E s \in StepIds : WorkerSetRunning(s)
    \/ \E s \in StepIds : WorkerHitlEvent(s)
    \/ \E s \in StepIds : WorkerHitlCheckpoint(s)
    \/ \E s \in StepIds : WorkerHitlPause(s)
    \/ \E s \in StepIds : WorkerCompleteEvent(s)
    \/ \E s \in StepIds : WorkerCompleteStatus(s)
    \/ \E s \in StepIds : WorkerRaise(s)
    \/ \E s \in StepIds : WorkerFailStatus(s)
    \/ \E s \in StepIds : WorkerAbortStatus(s)
    \/ \E s \in StepIds : WorkerClearAndExit(s)
    \/ \E q \in questionEvents : \E type \in {"response", "abort"} : UserInput(q, type)
    \/ \E inp \in inputs : ResumeTrigger(inp)
    \/ UserAbort
    \/ Tick

SpecLaunchFault == InitLaunchFault /\ [][NextLaunchFault]_vars

\* C40: when the controller writes the run status completed or failed after
\* the step documents were initialized, every step document of the run has
\* the status completed, failed or skipped.
C40_TerminalRunHasTerminalSteps ==
    [][( /\ ctrlPc # "exited" /\ ctrlPc' = "exited"
         /\ StepIdSet # {}
         /\ \A s \in StepIdSet : stepStatus[s] # "absent" ) =>
           \A s \in StepIdSet : stepStatus'[s] \in Terminal]_vars

(***************************************************************************)
(* Termination of the scheduling loop: workers, users and the resume       *)
(* trigger may stop at any point (no fairness for them), a worker may die, *)
(* and a paused step may never get its input.  The controller keeps taking *)
(* its steps, and the clock moves on at infinitely many of its sleeps.     *)
(***************************************************************************)
InitLoop ==
    /\ steps \in {SinglePlaybook, BranchPlaybook}
    /\ InitWith("start")

NextLoop ==
    \/ CtrlStart
    \/ CtrlValidate
    \/ CtrlComputeReady
    \/ CtrlLaunchCreateJob
    \/ CtrlLaunchSetJobName
    \/ CtrlCheckTermination
    \/ \E s \in StepIds : CtrlPollStep(s)
    \/ CtrlSleep
    \/ CtrlFinalize
    \/ \E s \in StepIds : WorkerBoot(s)
    \/ \E s \in StepIds : WorkerResumeBoot(s)
    \/ \E s \in StepIds : WorkerSetRunning(s)
    \/ \E s \in StepIds : WorkerHitlEvent(s)
    \/ \E s \in StepIds : WorkerHitlCheckpoint(s)
    \/ \E s \in StepIds : WorkerHitlPause(s)
    \/ \E s \in StepIds : WorkerCompleteEvent(s)
    \/ \E s \in StepIds : WorkerCompleteStatus(s)
    \/ \E s \in StepIds : WorkerRaise(s)
    \/ \E s \in StepIds : WorkerFailStatus(s)
    \/ \E s \in StepIds : WorkerAbortStatus(s)
    \/ \E s \in StepIds : WorkerClearAndExit(s)
    \/ \E s \in StepIds : WorkerKilled(s)
    \/ \E q \in questionEvents : \E type \in {"response", "abort"} : UserInput(q, type)
    \/ \E inp \in inputs : ResumeTrigger(inp)
    \/ UserAbort
    \/ TickSleeping

SpecLoop ==
    /\ InitLoop
    /\ [][NextLoop]_vars
    /\ \A s \in StepIds : WF_vars(CtrlPollStep(s))
    /\ WF_vars(CtrlStart) /\ WF_vars(CtrlValidate) /\ WF_vars(CtrlComputeReady)
    /\ WF_vars(CtrlLaunchCreateJob) /\ WF_vars(CtrlLaunchSetJobName)
    /\ WF_vars(CtrlCheckTermination) /\ WF_vars(CtrlSleep)
    /\ WF_vars(CtrlFinalize)
    /\ SF_vars(TickSleeping)

\* C36: for a valid playbook the scheduling loop terminates: the controller
\* eventually exits with no step left in running, also when a step stays
\* paused without input or a worker never reports.
C36_LoopTerminates ==
    <>(ctrlPc = "exited" /\ running = {})

\* the controller has exited after a step that was paused, and never got an
\* input, was removed from running by its timeout
C36_Witness ==
    /\ ctrlPc = "exited" /\ running = {}
    /\ inputs = {}
    /\ \E s \in timedOut : pauses[s] >= 1 /\ checkpoint[s] # NoCheckpoint

====
